---- MODULE Spec2Model ----
(***************************************************************************)
(* A model of benchdiff's differential benchmark pipeline: the resolution *)
(* of the refs (parseGitRefs), the build cache (benchSuite.build), the     *)
(* working-tree handling of buildBenches, the interleaved execution of     *)
(* runCmpBenches with the suites' output files, the threshold gate         *)
(* checkPassing, and the ui.Spinner with its renderer goroutine, both on   *)
(* its own and as build and runCmpBenches use it.                          *)
(*                                                                         *)
(* Strings are sequences of one-character strings, so that sorting,        *)
(* hashing and the package-name encoding are computed byte by byte as the  *)
(* program computes them.  32-bit hash values are kept as two 16-bit limbs *)
(* <<hi, lo>> so that the arithmetic modulo 2^32 stays inside the range of *)
(* the model checker's integers.                                           *)
(***************************************************************************)
EXTENDS Integers, Sequences, FiniteSets, TLC

(***************************************************************************)
(* Bytes and strings                                                       *)
(***************************************************************************)

\* The byte value of each character the model's strings are made of.
Ord ==
  [c \in {"a", "b", "c", "m", "_", "/", ".", "g", "i", "t", "h", "u", "o"} |->
     CASE c = "a" -> 97  [] c = "b" -> 98  [] c = "c" -> 99  [] c = "m" -> 109
       [] c = "_" -> 95  [] c = "/" -> 47  [] c = "." -> 46  [] c = "g" -> 103
       [] c = "i" -> 105 [] c = "t" -> 116 [] c = "h" -> 104 [] c = "u" -> 117
       [] c = "o" -> 111]

\* Go's string comparison s < t: bytewise lexicographic.
RECURSIVE StrLess(_, _)
StrLess(s, t) ==
  IF t = <<>> THEN FALSE
  ELSE IF s = <<>> THEN TRUE
  ELSE IF Ord[Head(s)] # Ord[Head(t)] THEN Ord[Head(s)] < Ord[Head(t)]
  ELSE StrLess(Tail(s), Tail(t))

\* One step of the sort: x put in its place in the sorted sequence ss.
RECURSIVE InsertSorted(_, _)
InsertSorted(x, ss) ==
  IF ss = <<>> THEN <<x>>
  ELSE IF StrLess(x, Head(ss)) THEN <<x>> \o ss
  ELSE <<Head(ss)>> \o InsertSorted(x, Tail(ss))

\* sort.Strings: the elements of ss in ascending order.
RECURSIVE SortStrings(_)
SortStrings(ss) ==
  IF ss = <<>> THEN <<>> ELSE InsertSorted(Head(ss), SortStrings(Tail(ss)))

\* strings.TrimPrefix.
HasPrefix(s, p) == Len(s) >= Len(p) /\ SubSeq(s, 1, Len(p)) = p

TrimPrefix(s, p) == IF HasPrefix(s, p) THEN SubSeq(s, Len(p) + 1, Len(s)) ELSE s

\* strings.ReplaceAll for a one-byte pattern and replacement.
ReplaceAll(s, old, new) == [i \in 1..Len(s) |-> IF s[i] = old THEN new ELSE s[i]]

\* strings.TrimLeft for a one-byte cutset.
RECURSIVE TrimLeft(_, _)
TrimLeft(s, c) == IF s # <<>> /\ Head(s) = c THEN TrimLeft(Tail(s), c) ELSE s

(***************************************************************************)
(* hash: FNV-1a, 32 bits, over the bytes of the filter's elements          *)
(***************************************************************************)

Limb == 256 * 256

\* The FNV-1a offset basis 2166136261 = 0x811C9DC5 and prime 16777619 =
\* 0x01000193 of hash/fnv's New32a, as 16-bit limbs.
FnvOffset == <<33052, 40389>>

FnvPrime == <<256, 403>>

\* x XOR y on n-bit values.
RECURSIVE XorBits(_, _, _)
XorBits(x, y, n) ==
  IF n = 0 THEN 0
  ELSE (((x % 2) + (y % 2)) % 2) + 2 * XorBits(x \div 2, y \div 2, n - 1)

\* h XOR b for a byte b: only the low byte of the low limb changes.
FnvXor(h, b) ==
  <<h[1], ((h[2] \div 256) * 256) + XorBits(h[2] % 256, b, 8)>>

\* h * prime modulo 2^32.
FnvMul(h) ==
  LET lo == h[2] * FnvPrime[2]
      hi == (h[1] * FnvPrime[2]) + (h[2] * FnvPrime[1]) + (lo \div Limb)
  IN  <<hi % Limb, lo % Limb>>

\* h.Write(bytes): for each byte, xor then multiply.
RECURSIVE FnvWrite(_, _)
FnvWrite(h, bytes) ==
  IF bytes = <<>> THEN h
  ELSE FnvWrite(FnvMul(FnvXor(h, Ord[Head(bytes)])), Tail(bytes))

\* The loop of hash: every element written in turn, nothing between them.
RECURSIVE FnvWriteAll(_, _)
FnvWriteAll(h, s) ==
  IF s = <<>> THEN h ELSE FnvWriteAll(FnvWrite(h, Head(s)), Tail(s))

\* strconv.Itoa(int(u)) for a 32-bit unsigned u (int is 64 bits wide): the
\* decimal digits of u, most significant first.
RECURSIVE Itoa(_)
Itoa(u) ==
  LET r1 == u[1] % 10
      lo == (r1 * Limb) + u[2]
      q  == <<u[1] \div 10, lo \div 10>>
  IN  IF q = <<0, 0>> THEN <<lo % 10>> ELSE Itoa(q) \o <<lo % 10>>

hash(s) == Itoa(FnvWriteAll(FnvOffset, s))

(***************************************************************************)
(* Paths and the package-name encoding                                     *)
(***************************************************************************)

\* filepath.Join: a path is the tuple of its components.
testDir(ref) == <<"benchdiff", ref>>

testArtifactsDir(ref) == testDir(ref) \o <<"artifacts">>

testBinDir(ref, pkgFilter) == testDir(ref) \o <<"bin", hash(pkgFilter)>>

GithubCom == <<"g", "i", "t", "h", "u", "b", ".", "c", "o", "m">>

\* pkgToTestBin: strip the github.com prefix, turn slashes into underscores,
\* trim the leading underscores.
pkgToTestBin(pkg) == TrimLeft(ReplaceAll(TrimPrefix(pkg, GithubCom), "/", "_"), "_")

\* expandPackages, when `go list` succeeds: one package per pattern, the
\* import path `go list` prints for it in the modelled repository, whose
\* module is github.com/m.
expandPackages(pkgFilter) ==
  [i \in 1..Len(pkgFilter) |-> GithubCom \o <<"/", "m", "/">> \o pkgFilter[i]]

\* The last element of a sequence that has one.
Last(q) == q[Len(q)]

(***************************************************************************)
(* Inputs                                                                  *)
(***************************************************************************)

\* Commits the refs of a run resolve to, and the branches of the repository.
Refs == {"r1", "r2"}

Branches == {"main"}

\* Package filters as typed on the command line.  The first two are
\* permutations of one set; the third is another set, whose elements written
\* one after the other are the same bytes as the sorted elements of the
\* first two.
FilterArgs ==
  { << <<"a">>, <<"b">> >>,
    << <<"b">>, <<"a">> >>,
    << <<"a", "b">> >> }

\* --post-checkout: none, or a hook command.
PostCheckouts == {"", "hook"}

\* The largest --count.
MaxIters == 2

\* --count is an int flag: negative, zero or positive.
Iters == (0 - 1)..MaxIters

Suites == <<"old", "new">>

(***************************************************************************)
(* State                                                                   *)
(***************************************************************************)

VARIABLES
  pc,           \* where run's main flow is
  tree,         \* what the shared working tree is checked out at
  cache,        \* the binary directories on disk: path -> contents
  prArgs,       \* the package arguments, in the user's order
  pkgFilter,    \* run's pkgFilter
  postChck,     \* run's postChck
  suites,       \* "old", "new" -> benchSuite
  bi,           \* buildBenches' position in bss
  restore,      \* buildBenches' deferred checkoutRef, when one is registered
  bbErr,        \* the error buildBenches is returning
  pkgs,         \* build's pkgs
  pidx,         \* build's position in pkgs
  trace,        \* the external commands of buildBenches so far, in order
  tests,        \* runCmpBenches' tests
  itersPerTest, \* runCmpBenches' itersPerTest
  ti,           \* runCmpBenches' i (from 1)
  iter,         \* runCmpBenches' j
  half,         \* 1: the bs1 run of the iteration is next, 2: the bs2 run
  invocations,  \* benchmark runs spawned so far, in order
  lastExit,     \* how the last benchmark run ended
  warnings,     \* "saw one or more benchmark failures" lines logged
  runErr,       \* what run returned
  gThresh,      \* checkPassing's thresh, in hundredths
  gTables,      \* checkPassing's tables
  gResult,      \* what checkPassing returned
  logs,         \* the output files on disk: path -> what was written
  spinners,     \* the Spinners the main flow declared, in order
  procs,        \* the external processes of the main flow that are running
  spinner,      \* a ui.Spinner: its ch, wg, t and w
  caller,       \* the goroutine that calls Start, Update and Stop
  renderer,     \* the goroutine Start spawns
  out,          \* the latest lines flushed to the Spinner's out, in order
  history,      \* what the Spinner's goroutines did so far
  head,         \* the commit HEAD is at when parseGitRefs runs
  oldArg,       \* parseGitRefs' oldRef argument
  newArg,       \* parseGitRefs' newRef argument
  gitSays,      \* how git cat-file words the failure for an unknown full id
  gitFault,     \* the git command that fails for a reason of its own, if any
  parsed        \* what parseGitRefs returned

pipeVars ==
  <<pc, tree, cache, prArgs, pkgFilter, postChck, suites, bi, restore, bbErr,
    pkgs, pidx, trace, tests, itersPerTest, ti, iter, half, invocations,
    lastExit, warnings, runErr, logs, spinners, procs>>

\* The Spinners and the processes of the main flow.
gateVars == <<gThresh, gTables, gResult>>

spinVars == <<spinner, caller, renderer, out, history>>

refVars == <<head, oldArg, newArg, gitSays, gitFault, parsed>>

\* What the pipeline's steps leave alone.
otherVars == <<spinners, procs, gateVars, spinVars, refVars>>

\* What the steps that use a Spinner or run a command leave alone.
restVars == <<gateVars, spinVars, refVars>>

vars == <<pipeVars, gateVars, spinVars, refVars>>

\* No file: the zero value of benchSuite.outFile.  An open file is the
\* path it was opened at and the offset its next write or read starts at.
NoFile == [path |-> <<>>, off |-> 0]

\* makeBenchSuite.  phase, err, created and seen record how build went,
\* calls how often build was called and builds how often it went past its
\* guard, last the latest buildTestBin, seeks how often outFile was rewound
\* and read what was read from it: they are not fields of the program's
\* benchSuite.
makeBenchSuite(ref, useBazel) ==
  [ref |-> ref, artDir |-> <<>>, outFile |-> NoFile, binDir |-> <<>>,
   useBazel |-> useBazel, testFiles |-> {},
   phase |-> "made", err |-> "", created |-> FALSE, seen |-> <<>>,
   calls |-> 0, builds |-> 0,
   last |-> [pkg |-> <<>>, hasTests |-> FALSE, fault |-> "", ok |-> FALSE,
             err |-> ""],
   seeks |-> 0, read |-> <<>>]

\* No deferred restoration.  start records what the working tree was checked
\* out at when buildBenches was called: it is not a value of the program.
NoRestore == [ok |-> FALSE, ref |-> "", start |-> ""]

\* No process is running and none has run; peak is the most that ran at the
\* same time so far.
NoProcs == [running |-> 0, peak |-> 0]

\* Nothing has run yet: no binary directory exists.
PipeIdle ==
  /\ pc = "idle"
  /\ cache = <<>>
  /\ prArgs = <<>>
  /\ pkgFilter = <<>>
  /\ postChck = ""
  /\ suites = [s \in {"old", "new"} |-> makeBenchSuite("", FALSE)]
  /\ bi = 1
  /\ restore = NoRestore
  /\ bbErr = ""
  /\ pkgs = <<>>
  /\ pidx = 1
  /\ trace = <<>>
  /\ tests = <<>>
  /\ itersPerTest = 0
  /\ ti = 1
  /\ iter = 0
  /\ half = 1
  /\ invocations = <<>>
  /\ lastExit = ""
  /\ warnings = 0
  /\ runErr = ""
  /\ logs = <<>>
  /\ spinners = <<>>
  /\ procs = NoProcs

\* checkPassing has not been called.
Pending == [err |-> "pending", table |-> 0, row |-> 0]

GateIdle ==
  /\ gThresh = 0
  /\ gTables = <<>>
  /\ gResult = Pending

(***************************************************************************)
(* ui.Spinner                                                              *)
(***************************************************************************)

\* The most calls of Start, Update and Stop one caller makes; the number of
\* ticks of the Spinner's ticker up to which they are counted; and the
\* number of lines of the Spinner's out that are kept, the latest ones.
MaxCalls == 4

MaxTicks == 1

MaxOut == 2

\* var spinnerChars: the glyphs, by index.
spinnerChars == <<"|", "/", "-", "\\">>

\* The zero Spinner: no channel, no renderer.  buf is what the channel
\* holds; w is what was printed to s.w and not flushed yet.
ZeroSpinner == [ch |-> "nil", buf |-> <<>>, wg |-> 0, t |-> "nil", w |-> <<>>]

\* The caller is between two calls.
CallerReady == [pc |-> "ready", calls |-> 0, last |-> "", arg |-> "", panic |-> ""]

\* No renderer goroutine.
NoRenderer == [pc |-> "none", progress |-> "", ok |-> FALSE, spinnerIdx |-> 0]

\* The renderer goroutine at the top of its loop.
NewRenderer == [pc |-> "select", progress |-> "", ok |-> FALSE, spinnerIdx |-> 0]

NoHistory ==
  [spawned |-> 0, recvd |-> <<>>, ticks |-> 0, stopReturned |-> FALSE,
   flushedLast |-> FALSE]

SpinIdle ==
  /\ spinner = ZeroSpinner
  /\ caller = CallerReady
  /\ renderer = NoRenderer
  /\ out = <<>>
  /\ history = NoHistory

\* A variant of Start's guard that only notices a Spinner still running.
StartedTwiceWhileOpen(ch) == ch = "open"

\* if s.ch != nil { panic("Spinner started twice") }
StartedTwice(ch) == ch # "nil"

\* A variant of the channel with room for one value.
ChanHasRoomForOne(buf) == Len(buf) < 1

\* s.ch = make(chan string): the channel holds no value, a send completes
\* only when the receiver takes it.
ChanHasRoom(buf) == Len(buf) < 0

\* A variant of Stop that does not wait for the renderer.
WaitReturnsAtOnce(wg) == TRUE

\* s.wg.Wait() returns when the counter is zero.
WaitReturns(wg) == wg = 0

\* The process has not died of a panic.
Alive == caller.pc # "panic" /\ renderer.pc # "panic"

\* The caller makes its next call.
Calling ==
  /\ Alive
  /\ caller.pc = "ready"
  /\ caller.calls < MaxCalls

\* Spinner.Start: panics when the Spinner was started before; otherwise makes
\* the channel and the ticker and spawns the renderer.
SpinnerStart ==
  /\ Calling
  /\ IF StartedTwice(spinner.ch)
     THEN /\ caller' = [caller EXCEPT !.pc = "panic", !.calls = @ + 1,
                          !.last = "Start", !.panic = "Spinner started twice"]
          /\ UNCHANGED <<spinner, renderer, history>>
     ELSE /\ caller' = [caller EXCEPT !.calls = @ + 1, !.last = "Start"]
          /\ spinner' = [spinner EXCEPT !.ch = "open", !.buf = <<>>,
                           !.t = "ticking", !.wg = @ + 1]
          /\ renderer' = NewRenderer
          /\ history' = [history EXCEPT !.spawned = @ + 1]
  /\ UNCHANGED <<out, pipeVars, gateVars, refVars>>

\* Spinner.Update, the send s.ch <- progress: it blocks for ever on a nil
\* channel, panics on a closed one, and otherwise waits for the receiver
\* unless the channel has room.
SpinnerUpdate ==
  /\ Calling
  /\ \E p \in {"1/2", "2/2"} :
       LET c == [caller EXCEPT !.calls = @ + 1, !.last = "Update", !.arg = p]
       IN  CASE spinner.ch = "nil" ->
                  /\ caller' = [c EXCEPT !.pc = "blocked"]
                  /\ UNCHANGED spinner
             [] spinner.ch = "closed" ->
                  /\ caller' = [c EXCEPT !.pc = "panic",
                                  !.panic = "send on closed channel"]
                  /\ UNCHANGED spinner
             [] OTHER ->
                  IF ChanHasRoom(spinner.buf)
                  THEN /\ caller' = c
                       /\ spinner' = [spinner EXCEPT !.buf = Append(@, p)]
                  ELSE /\ caller' = [c EXCEPT !.pc = "Update"]
                       /\ UNCHANGED spinner
  /\ UNCHANGED <<renderer, out, history, pipeVars, gateVars, refVars>>

\* Spinner.Stop up to s.wg.Wait(): close(s.ch) panics on a nil channel and
\* on a closed one.
SpinnerStop ==
  /\ Calling
  /\ LET c == [caller EXCEPT !.calls = @ + 1, !.last = "Stop"]
     IN  CASE spinner.ch = "nil" ->
                /\ caller' = [c EXCEPT !.pc = "panic",
                                !.panic = "close of nil channel"]
                /\ UNCHANGED spinner
           [] spinner.ch = "closed" ->
                /\ caller' = [c EXCEPT !.pc = "panic",
                                !.panic = "close of closed channel"]
                /\ UNCHANGED spinner
           [] OTHER ->
                /\ caller' = [c EXCEPT !.pc = "Wait"]
                /\ spinner' = [spinner EXCEPT !.ch = "closed"]
  /\ UNCHANGED <<renderer, out, history, pipeVars, gateVars, refVars>>

\* s.wg.Wait() returns and Stop with it.
SpinnerStopReturn ==
  /\ Alive
  /\ caller.pc = "Wait"
  /\ WaitReturns(spinner.wg)
  /\ caller' = [caller EXCEPT !.pc = "ready"]
  /\ history' = [history EXCEPT !.stopReturned = TRUE]
  /\ UNCHANGED <<spinner, renderer, out, pipeVars, gateVars, refVars>>

\* A variant of the tick case that forgets the progress.
AfterTickCleared(progress) == ""

\* case <-s.t.C: progress is left as it is.
AfterTick(progress) == progress

\* The renderer's select takes a tick; the ticker goes on ticking for as long
\* as it is not stopped.
RenderTick ==
  /\ Alive
  /\ renderer.pc = "select"
  /\ spinner.t = "ticking"
  /\ renderer' = [renderer EXCEPT !.pc = "render", !.progress = AfterTick(@)]
  /\ history' = [history EXCEPT !.ticks = IF @ < MaxTicks THEN @ + 1 ELSE @]
  /\ UNCHANGED <<spinner, caller, out, pipeVars, gateVars, refVars>>

\* The renderer's select receives: a value the channel holds, or the value
\* of the sender waiting in Update, which returns.
RenderReceive ==
  /\ Alive
  /\ renderer.pc = "select"
  /\ \/ /\ spinner.buf # <<>>
        /\ renderer' = [renderer EXCEPT !.pc = "render", !.ok = TRUE,
                          !.progress = Head(spinner.buf)]
        /\ spinner' = [spinner EXCEPT !.buf = Tail(@)]
        /\ history' = [history EXCEPT !.recvd = Append(@, Head(spinner.buf))]
        /\ UNCHANGED caller
     \/ /\ spinner.buf = <<>>
        /\ caller.pc = "Update"
        /\ renderer' = [renderer EXCEPT !.pc = "render", !.ok = TRUE,
                          !.progress = caller.arg]
        /\ caller' = [caller EXCEPT !.pc = "ready"]
        /\ history' = [history EXCEPT !.recvd = Append(@, caller.arg)]
        /\ UNCHANGED spinner
  /\ UNCHANGED <<out, pipeVars, gateVars, refVars>>

\* The renderer's select finds the channel closed and empty: progress is the
\* zero value, ok is false and the goroutine returns, running its deferred
\* calls.
RenderClosed ==
  /\ Alive
  /\ renderer.pc = "select"
  /\ spinner.ch = "closed"
  /\ spinner.buf = <<>>
  /\ renderer' = [renderer EXCEPT !.pc = "deferred", !.ok = FALSE, !.progress = ""]
  /\ UNCHANGED <<spinner, caller, out, history, pipeVars, gateVars, refVars>>

\* The renderer prints the prefix, the progress and the glyph to s.w.
RenderPrint ==
  /\ Alive
  /\ renderer.pc = "render"
  /\ spinner' = [spinner EXCEPT !.w =
       Append(@, [progress |-> renderer.progress,
                  glyph |-> spinnerChars[(renderer.spinnerIdx % Len(spinnerChars)) + 1]])]
  /\ renderer' = [renderer EXCEPT !.pc = "flush"]
  /\ UNCHANGED <<caller, out, history, pipeVars, gateVars, refVars>>

\* The latest MaxOut lines of a stream.
Latest(lines) ==
  IF Len(lines) <= MaxOut THEN lines
  ELSE SubSeq(lines, Len(lines) - MaxOut + 1, Len(lines))

\* s.w.Flush(out) in the loop: what was printed goes to out; an error is a
\* panic.  spinnerIdx only matters modulo the number of glyphs.
RenderFlush ==
  /\ Alive
  /\ renderer.pc = "flush"
  /\ \/ /\ out' = Latest(out \o spinner.w)
        /\ spinner' = [spinner EXCEPT !.w = <<>>]
        /\ renderer' = [renderer EXCEPT !.pc = "select",
                          !.spinnerIdx = (@ + 1) % Len(spinnerChars)]
     \/ /\ renderer' = [renderer EXCEPT !.pc = "panic"]
        /\ UNCHANGED <<out, spinner>>
  /\ UNCHANGED <<caller, history, pipeVars, gateVars, refVars>>

\* The deferred calls of the renderer, last registered first:
\* s.w.Flush(out), whose error is dropped, then s.t.Stop().
RenderFinalFlush ==
  /\ Alive
  /\ renderer.pc = "deferred"
  /\ \/ out' = Latest(out \o spinner.w)
     \/ UNCHANGED out
  /\ spinner' = [spinner EXCEPT !.w = <<>>, !.t = "stopped"]
  /\ renderer' = [renderer EXCEPT !.pc = "done"]
  /\ history' = [history EXCEPT !.flushedLast = TRUE]
  /\ UNCHANGED <<caller, pipeVars, gateVars, refVars>>

\* A variant of the renderer that does not tell the WaitGroup it is over.
DoneSkipped(wg) == wg

\* s.wg.Done()
Done(wg) == wg - 1

\* The first deferred call registered, s.wg.Done(): the goroutine is over.
RenderExit ==
  /\ Alive
  /\ renderer.pc = "done"
  /\ spinner' = [spinner EXCEPT !.wg = Done(@)]
  /\ renderer' = [renderer EXCEPT !.pc = "exited"]
  /\ UNCHANGED <<caller, out, history, pipeVars, gateVars, refVars>>

(***************************************************************************)
(* git refs: parseGitRefs and the commands it runs                         *)
(***************************************************************************)

\* c, n times.
Rep(c, n) == [i \in 1..n |-> c]

\* strconv.ParseUint(x, 16, 64) returns no error, for x of at most 16 digits.
IsHex(x) ==
  LET HexDigits == {"0", "1", "2", "3", "4", "5", "6", "7", "8", "9",
                    "a", "b", "c", "d", "e", "f", "A", "B", "C", "D", "E", "F"}
  IN  x # <<>> /\ \A i \in 1..Len(x) : x[i] \in HexDigits

\* The length of a full object id, and of the abbreviation shortenRef tries.
ShaLen == 40

AbbrevLen == 7

\* A full object id: seven digits, then one digit repeated.
Sha(first, fill) == first \o Rep(fill, ShaLen - AbbrevLen)

\* The commits of the repository, oldest first.  c3 merges c5 into c2; the
\* ids of c5 and c6 start with the same seven digits.
Repo ==
  [c1 |-> [sha |-> Sha(Rep("1", 7), "0"), parents |-> <<>>, date |-> 1],
   c2 |-> [sha |-> Sha(Rep("2", 7), "0"), parents |-> <<"c1">>, date |-> 2],
   c5 |-> [sha |-> Sha(Rep("5", 7), "0"), parents |-> <<"c1">>, date |-> 3],
   c3 |-> [sha |-> Sha(<<"a", "b", "c", "1", "2", "3", "4">>, "0"),
           parents |-> <<"c2", "c5">>, date |-> 4],
   c4 |-> [sha |-> Sha(Rep("4", 7), "0"), parents |-> <<"c3">>, date |-> 5],
   c6 |-> [sha |-> Sha(Rep("5", 7), "1"), parents |-> <<"c4">>, date |-> 6]]

CommitIds == DOMAIN Repo

\* The branch and the tag of the repository.
RefMain == <<"m", "a", "i", "n">>

RefV1 == <<"v", "1">>

RefHEAD == <<"H", "E", "A", "D">>

Lastmerge == <<"l", "a", "s", "t", "m", "e", "r", "g", "e">>

\* The commits whose id starts with x.
WithPrefix(x) ==
  {c \in CommitIds : Len(x) <= ShaLen /\ SubSeq(Repo[c].sha, 1, Len(x)) = x}

\* The commit a name stands for in git, "none" when it names no object: HEAD,
\* a branch or tag, a full id, or an abbreviation of four digits or more
\* that only one object has.
Resolve(x, h) ==
  CASE x = RefHEAD -> h
    [] x = RefMain -> "c6"
    [] x = RefV1   -> "c2"
    [] OTHER ->
         IF IsHex(x) /\ Len(x) >= 4 /\ Cardinality(WithPrefix(x)) = 1
         THEN CHOOSE c \in WithPrefix(x) : TRUE
         ELSE "none"

\* What a command gave: its stdout and whether it exited with success; msg
\* is what it wrote to stderr.
Ran(o, ok, msg) == [out |-> o, ok |-> ok, msg |-> msg]

\* No command fails for a reason of its own.  A git command line is the
\* subcommand and the ref it is given.
NoFault == [cmd |-> "", arg |-> <<>>]

\* The command git cmd x fails whatever x names: git cannot be run, or the
\* repository cannot be read.
Broken(cmd, x) == gitFault = [cmd |-> cmd, arg |-> x]

\* What capture gets from such a command.
ExitStatus128 == Ran(<<>>, FALSE, "exit status 128")

\* git rev-parse x: the full id of the commit x names; x~ is the first
\* parent of x; a full-length id is printed back whether or not an object
\* has it.
RevParse(x, h) ==
  IF Broken("rev-parse", x) THEN ExitStatus128
  ELSE IF x # <<>> /\ x[Len(x)] = "~"
  THEN LET c == Resolve(SubSeq(x, 1, Len(x) - 1), h)
       IN  IF c # "none" /\ Repo[c].parents # <<>>
           THEN Ran(Repo[Repo[c].parents[1]].sha, TRUE, "")
           ELSE Ran(<<>>, FALSE, "unknown revision")
  ELSE IF Resolve(x, h) # "none" THEN Ran(Repo[Resolve(x, h)].sha, TRUE, "")
       ELSE IF IsHex(x) /\ Len(x) = ShaLen THEN Ran(x, TRUE, "")
       ELSE Ran(<<>>, FALSE, "unknown revision")

\* How git cat-file words its failure for a full-length id no object has.
CatFileWordings == {"Not a valid object name", "could not get object info"}

\* git cat-file -t x.
CatFile(x, h, says) ==
  IF Broken("cat-file", x) THEN ExitStatus128
  ELSE IF Resolve(x, h) # "none" THEN Ran(<<"c", "o", "m", "m", "i", "t">>, TRUE, "")
  ELSE IF IsHex(x) /\ Len(x) = ShaLen THEN Ran(<<>>, FALSE, says)
  ELSE Ran(<<>>, FALSE, "Not a valid object name")

\* The commits reachable from c, c among them.
RECURSIVE Reachable(_)
Reachable(c) ==
  {c} \cup UNION {Reachable(Repo[c].parents[i]) : i \in 1..Len(Repo[c].parents)}

\* git log -n 1 --merges --format=%H x: the latest commit with two parents
\* among those reachable from x; nothing when there is none.
LogMerges(x, h) ==
  LET c == Resolve(x, h)
      merges == IF c = "none" THEN {}
                ELSE {m \in Reachable(c) : Len(Repo[m].parents) >= 2}
  IN  IF Broken("log", x) THEN ExitStatus128
      ELSE IF c = "none" THEN Ran(<<>>, FALSE, "unknown revision")
      ELSE IF merges = {} THEN Ran(<<>>, TRUE, "")
      ELSE Ran(Repo[CHOOSE m \in merges :
                      \A k \in merges : Repo[k].date <= Repo[m].date].sha, TRUE, "")

\* What a function returning (string, error) gave.
Got(ref, err) == [ref |-> ref, err |-> err]

\* getRefAsSHA
getRefAsSHA(ref, h) ==
  LET r == RevParse(ref, h)
  IN  IF ~r.ok THEN Got(<<>>, "getting git ref as sha") ELSE Got(r.out, "")

\* getCurRef
getCurRef(h) ==
  LET r == getRefAsSHA(RefHEAD, h)
  IN  IF r.err # "" THEN Got(<<>>, "getting current git ref") ELSE r

\* A variant of getPrevRef that asks for the ref itself.
getPrevRefSame(ref, h) ==
  LET r == getRefAsSHA(ref, h)
  IN  IF r.err # "" THEN Got(<<>>, "getting previous git ref") ELSE r

\* getPrevRef
getPrevRef(ref, h) ==
  LET r == getRefAsSHA(ref \o <<"~">>, h)
  IN  IF r.err # "" THEN Got(<<>>, "getting previous git ref") ELSE r

\* checkValidRef
checkValidRef(ref, h, says) ==
  LET r == CatFile(ref, h, says)
  IN  IF ~r.ok
      THEN IF r.msg = "Not a valid object name"
           THEN [ok |-> FALSE, err |-> ""]
           ELSE [ok |-> FALSE, err |-> "checking valid ref"]
      ELSE [ok |-> TRUE, err |-> ""]

\* A variant of shortenRef that cuts every id without asking git.
shortenRefUnchecked(ref, h, says) ==
  IF Len(ref) > AbbrevLen /\ IsHex(SubSeq(ref, 1, AbbrevLen))
  THEN SubSeq(ref, 1, AbbrevLen) ELSE ref

\* shortenRef
shortenRef(ref, h, says) ==
  IF Len(ref) <= AbbrevLen THEN ref
  ELSE LET shortRef == SubSeq(ref, 1, AbbrevLen)
           v == checkValidRef(shortRef, h, says)
       IN  IF ~IsHex(shortRef) THEN ref
           ELSE IF v.ok /\ v.err = "" THEN shortRef
           ELSE ref

\* What parseGitRefs returns; bad is the ref the "invalid git ref" error
\* quotes.
Parsed(o, n, err, bad) == [old |-> o, new |-> n, err |-> err, bad |-> bad]

NotParsed == Parsed(<<>>, <<>>, "pending", <<>>)

\* parseGitRefs
parseGitRefs(o, n, h, says) ==
  LET fail(e) == Parsed(<<>>, <<>>, e, <<>>)
      n1 == IF n = <<>> THEN getCurRef(h) ELSE getRefAsSHA(n, h)
      n2 == shortenRef(n1.ref, h, says)
      nv == checkValidRef(n2, h, says)
      o1 == IF o = <<>> THEN getPrevRef(n2, h)
            ELSE IF o = Lastmerge THEN Got(LogMerges(n2, h).out, "")
            ELSE getRefAsSHA(o, h)
      o2 == shortenRef(o1.ref, h, says)
      ov == checkValidRef(o2, h, says)
  IN  IF n1.err # "" THEN fail(n1.err)
      ELSE IF nv.err # "" THEN fail(nv.err)
      ELSE IF ~nv.ok THEN Parsed(<<>>, <<>>, "invalid git ref", n2)
      ELSE IF o1.err # "" THEN fail(o1.err)
      ELSE IF ov.err # "" THEN fail(ov.err)
      ELSE IF ~ov.ok THEN Parsed(<<>>, <<>>, "invalid git ref", o2)
      ELSE Parsed(o2, n2, "", <<>>)

\* The refs a user passes as --new: none, a branch, a tag, a full id, an
\* abbreviation, a name the repository does not have, a full-length id no
\* object has whose first seven digits abbreviate c4, and one whose first
\* seven digits abbreviate nothing.
NewArgs ==
  {<<>>, RefMain, RefV1, Repo["c4"].sha, SubSeq(Repo["c3"].sha, 1, AbbrevLen),
   <<"n", "o", "p", "e">>, Sha(Rep("4", 7), "f"), Rep("9", ShaLen)}

\* The refs a user passes as --old: these, and the keyword.
OldArgs == NewArgs \cup {Lastmerge}

RefsIdle ==
  /\ head = "c1"
  /\ oldArg = <<>>
  /\ newArg = <<>>
  /\ gitSays = "Not a valid object name"
  /\ gitFault = NoFault
  /\ parsed = NotParsed

\* run's call of parseGitRefs.
ParseGitRefs ==
  /\ parsed = NotParsed
  /\ parsed' = parseGitRefs(oldArg, newArg, head, gitSays)
  /\ UNCHANGED <<head, oldArg, newArg, gitSays, gitFault, pipeVars, gateVars,
                 spinVars>>

(***************************************************************************)
(* The Spinner and the commands, as the main flow uses them                *)
(***************************************************************************)

\* strconv.Itoa(n) for a small n >= 0, as characters.
Digits(n) ==
  LET DecimalDigits == <<"0", "1", "2", "3", "4", "5", "6", "7", "8", "9">>
      ds == Itoa(<<0, n>>)
  IN  [i \in 1..Len(ds) |-> DecimalDigits[ds[i] + 1]]

\* ui.Fraction: n, padded with spaces on the left to the width of d, a
\* slash, and d.
Fraction(n, d) ==
  LET dWidth == Len(Digits(d))
      pad    == IF Len(Digits(n)) < dWidth THEN dWidth - Len(Digits(n)) ELSE 0
  IN  Rep(" ", pad) \o Digits(n) \o <<"/">> \o Digits(d)

\* testBinToPkg
testBinToPkg(bin) == ReplaceAll(bin, "_", "/")

\* fmt.Sprintf(" pkg=%s iter=%s %s", pkgFrac, iterFrac, pkg)
BenchProgress(pkgFrac, iterFrac, pkg) ==
  <<" ", "p", "k", "g", "=">> \o pkgFrac \o <<" ", "i", "t", "e", "r", "=">>
    \o iterFrac \o <<" ">> \o pkg

\* var spinner ui.Spinner, declared by the build of a suite or by
\* runCmpBenches (owner): the zero Spinner.  calls are the calls made on it
\* that returned, and fault is how a call that did not return ended: they
\* are not fields of the program's Spinner.
NewSpinner(owner) ==
  [owner |-> owner, ch |-> "nil", wg |-> 0, calls |-> <<>>, fault |-> ""]

Call(name, arg) == [name |-> name, arg |-> arg]

\* Spinner.Start, from call to return: panics when the Spinner was started
\* before; otherwise the channel is made and the renderer is spawned.
CallStart(sp) ==
  IF sp.fault # "" THEN sp
  ELSE IF StartedTwice(sp.ch) THEN [sp EXCEPT !.fault = "Spinner started twice"]
  ELSE [sp EXCEPT !.ch = "open", !.wg = @ + 1,
                  !.calls = Append(@, Call("Start", <<>>))]

\* Spinner.Update, from call to return: the send blocks for ever on a nil
\* channel and panics on a closed one; otherwise the renderer receives the
\* progress and the call returns.
CallUpdate(sp, progress) ==
  IF sp.fault # "" THEN sp
  ELSE IF sp.ch = "nil" THEN [sp EXCEPT !.fault = "send on nil channel"]
  ELSE IF sp.ch = "closed" THEN [sp EXCEPT !.fault = "send on closed channel"]
  ELSE [sp EXCEPT !.calls = Append(@, Call("Update", progress))]

\* Spinner.Stop, from call to return: close panics on a nil channel and on
\* a closed one; otherwise Wait returns after the renderer has run its
\* deferred s.wg.Done(), and the renderer is over.
CallStop(sp) ==
  IF sp.fault # "" THEN sp
  ELSE IF sp.ch = "nil" THEN [sp EXCEPT !.fault = "close of nil channel"]
  ELSE IF sp.ch = "closed" THEN [sp EXCEPT !.fault = "close of closed channel"]
  ELSE [sp EXCEPT !.ch = "closed", !.wg = Done(@),
                  !.calls = Append(@, Call("Stop", <<>>))]

\* A variant of build that returns without stopping its Spinner.
BuildDeferredStopNone(sp) == sp

\* build's defer spinner.Stop()
BuildDeferredStop(sp) == CallStop(sp)

\* A variant of runCmpBenches that stops its Spinner before it returns as
\* well as in a deferred call.
RunCmpStopTwice(sp) == CallStop(CallStop(sp))

\* runCmpBenches' defer spinner.Stop()
RunCmpDeferredStop(sp) == CallStop(sp)

\* The Spinners with the one declared last replaced by sp.
WithLast(sps, sp) == [sps EXCEPT ![Len(sps)] = sp]

\* cmd.Run(), cmd.Output() and cmd.CombinedOutput(): the process is started,
\* and it has ended and was waited for before the call returns.
CmdRun(p) ==
  LET started ==
        [running |-> p.running + 1,
         peak    |-> IF p.running + 1 > p.peak THEN p.running + 1 ELSE p.peak]
  IN  [started EXCEPT !.running = @ - 1]

(***************************************************************************)
(* The pipeline                                                            *)
(***************************************************************************)

\* The working tree is on a branch, or HEAD is detached at a commit.
Init ==
  /\ tree \in Branches \cup Refs
  /\ PipeIdle
  /\ GateIdle
  /\ SpinIdle
  /\ RefsIdle

(***************************************************************************)
(* run: arguments, suites                                                  *)
(***************************************************************************)

\* A variant that hashes the filter in the order the user typed it.
CanonFilterUnsorted(args) == args

\* pkgFilter := prArgs; sort.Strings(pkgFilter)
CanonFilter(args) == SortStrings(args)

\* run from its start to the call of buildBenches, for a command line with
\* the package arguments args and refs that resolved to oldRef and newRef.
StartRun(args, oldRef, newRef) ==
  /\ prArgs' = args
  /\ pkgFilter' = CanonFilter(args)
  /\ \E useBazel \in BOOLEAN :
       suites' = [s \in {"old", "new"} |->
                    makeBenchSuite(IF s = "old" THEN oldRef ELSE newRef, useBazel)]
  /\ postChck' = ""
  /\ bi' = 1
  /\ restore' = NoRestore
  /\ bbErr' = ""
  /\ pkgs' = <<>>
  /\ pidx' = 1
  /\ trace' = <<>>
  /\ tests' = <<>>
  /\ itersPerTest' = 0
  /\ ti' = 1
  /\ iter' = 0
  /\ half' = 1
  /\ invocations' = <<>>
  /\ lastExit' = ""
  /\ warnings' = 0
  /\ runErr' = ""
  /\ pc' = "buildBenches"
  /\ logs' = <<>>
  /\ spinners' = <<>>
  /\ procs' = NoProcs
  /\ UNCHANGED <<tree, cache, restVars>>

(***************************************************************************)
(* buildBenches and benchSuite.build                                       *)
(***************************************************************************)

\* A variant of getCurSymbolicRef that takes a detached HEAD for a ref to go
\* back to.
getCurSymbolicRefAlways(t) == [ref |-> t, ok |-> TRUE, start |-> t]

\* getCurSymbolicRef, when git answers: the branch HEAD points to, or not ok
\* when HEAD is detached.
getCurSymbolicRef(t) ==
  [ref |-> IF t \in Branches THEN t ELSE "", ok |-> t \in Branches, start |-> t]

\* buildBenches up to its loop: the deferred restoration is registered when
\* HEAD is on a branch.
BuildBenchesEnter ==
  /\ pc = "buildBenches"
  /\ \E hook \in PostCheckouts, git \in {"ok", "fail"} :
       /\ postChck' = hook
       /\ IF git = "fail"
          THEN /\ runErr' = "getting current git ref"
               /\ pc' = "done"
               /\ restore' = [NoRestore EXCEPT !.start = tree]
          ELSE /\ restore' = getCurSymbolicRef(tree)
               /\ pc' = "build"
               /\ UNCHANGED runErr
  /\ bi' = 1
  /\ procs' = CmdRun(procs)
  /\ UNCHANGED <<tree, cache, prArgs, pkgFilter, suites, bbErr, pkgs, pidx,
                 trace, tests, itersPerTest, ti, iter, half, invocations,
                 lastExit, warnings, logs, spinners, restVars>>

\* A variant of the cache lookup that never finds the directory.
StatFindsNever(c, dir) == FALSE

\* os.Stat(bs.binDir) returning no error: the directory is there.
StatFinds(c, dir) == dir \in DOMAIN c

\* os.MkdirAll(bs.binDir): creates the directory unless it is there already.
\* files are the regular files of the directory and dirs the directories in
\* it.  complete, ref and filter record which build filled the directory
\* and whether that build ran to its end, recorded the testFiles that build
\* had when it returned nil: they are not on disk.
MkdirAll(c, dir, ref, filter) ==
  IF dir \in DOMAIN c THEN c
  ELSE [d \in DOMAIN c \cup {dir} |->
          IF d = dir
          THEN [files |-> {}, dirs |-> {}, complete |-> FALSE, ref |-> ref,
                filter |-> filter, recorded |-> {}]
          ELSE c[d]]

\* os.RemoveAll(bs.binDir).
RemoveAll(c, dir) == [d \in DOMAIN c \ {dir} |-> c[d]]

\* A variant of build's deferred function that removes nothing.
DeferredCleanupNone(c, dir, err) == c

\* build's deferred function: the directory is removed when build returns an
\* error.
DeferredCleanup(c, dir, err) == IF err # "" THEN RemoveAll(c, dir) ELSE c

\* build returns err after the deferred function was registered, and
\* buildBenches returns it in turn.
BuildFails(s, err) ==
  /\ cache' = DeferredCleanup(cache, suites[s].binDir, err)
  /\ suites' = [suites EXCEPT ![s].phase = "failed", ![s].err = err]
  /\ bbErr' = err
  /\ pc' = "bbReturn"

\* build returns nil: buildBenches goes on with the next suite, or returns.
BuildReturnsNil ==
  /\ bbErr' = ""
  /\ IF bi < Len(Suites)
     THEN bi' = bi + 1 /\ pc' = "build"
     ELSE bi' = bi /\ pc' = "bbReturn"

\* getOutputFile: the file's name ends in the time buildBenches took when
\* it was called, the same for the suites of one run.
getOutputFile(bs) == bs.artDir \o <<"out">>

\* os.OpenFile(name, os.O_RDWR|os.O_CREATE, 0644): the file is created empty
\* when it is not there, and left as it is when it is.
OpenFile(fs, name) ==
  IF name \in DOMAIN fs THEN fs
  ELSE [f \in DOMAIN fs \cup {name} |-> IF f = name THEN <<>> ELSE fs[f]]

\* A variant of the cache-hit loop that takes every entry for a file.
HasNestedDirNever(entry) == FALSE

\* f.IsDir() for some entry of the directory.
HasNestedDir(entry) == entry.dirs # {}

\* The entries of a directory that ioutil.ReadDir, which sorts by name,
\* lists before the first nested directory.
ListedBeforeDir(entry) ==
  {f \in entry.files : \A d \in entry.dirs : StrLess(f, d)}

\* if len(bs.testFiles) != 0 { panic("benchSuite already built") }
AlreadyBuilt(bs) == bs.testFiles # {}

\* build from its start to the creation of the binary directory: the guard,
\* the artifacts directory, the output file, and the cache lookup with the
\* whole of the cache-hit path.
BuildOpen ==
  /\ pc = "build"
  /\ LET s      == Suites[bi]
         bs0    == [suites[s] EXCEPT !.calls = @ + 1]
         bs     == [bs0 EXCEPT !.builds = @ + 1]
         artDir == testArtifactsDir(bs.ref)
         b1     == [bs EXCEPT !.artDir = artDir]
         name   == getOutputFile(b1)
         b2     == [b1 EXCEPT !.outFile = [path |-> name, off |-> 0]]
         binDir == testBinDir(bs.ref, pkgFilter)
         b3     == [b2 EXCEPT !.binDir = binDir]
         ret(b, e) ==
           /\ suites' = [suites EXCEPT ![s] = [b EXCEPT !.phase = "failed", !.err = e]]
           /\ bbErr' = e
           /\ pc' = "bbReturn"
           /\ UNCHANGED <<cache, bi>>
     IN  IF AlreadyBuilt(suites[s])
         THEN /\ suites' = [suites EXCEPT ![s] = bs0]
              /\ runErr' = "benchSuite already built"
              /\ pc' = "panic"
              /\ UNCHANGED <<cache, bi, bbErr, logs>>
         ELSE /\ UNCHANGED runErr
              /\ \/ /\ ret(b1, "mkdir artifacts")
                    /\ UNCHANGED logs
                 \/ /\ ret(b1, "open output file")
                    /\ UNCHANGED logs
                 \/ /\ logs' = OpenFile(logs, name)
                    /\ \/ ret(b3, "looking for test directory")
                       \/ /\ StatFinds(cache, binDir)
                          /\ ret(b3, "read dir")
                       \/ /\ StatFinds(cache, binDir)
                          /\ HasNestedDir(cache[binDir])
                          /\ ret([b3 EXCEPT !.testFiles = ListedBeforeDir(cache[binDir]),
                                            !.seen = <<cache[binDir]>>],
                                 "unexpected directory")
                       \/ /\ StatFinds(cache, binDir)
                          /\ ~HasNestedDir(cache[binDir])
                          /\ suites' = [suites EXCEPT ![s] =
                               [b3 EXCEPT !.testFiles = cache[binDir].files,
                                          !.phase = "hit", !.seen = <<cache[binDir]>>]]
                          /\ BuildReturnsNil
                          /\ UNCHANGED cache
                       \/ /\ ~StatFinds(cache, binDir)
                          /\ ret(b3, "mkdir bin")
                       \/ /\ ~StatFinds(cache, binDir)
                          /\ cache' = MkdirAll(cache, binDir, bs.ref, pkgFilter)
                          /\ suites' = [suites EXCEPT ![s] =
                               [b3 EXCEPT !.phase = "building",
                                          !.created = binDir \notin DOMAIN cache]]
                          /\ pc' = "checkout"
                          /\ UNCHANGED <<bi, bbErr>>
  /\ UNCHANGED <<tree, prArgs, pkgFilter, postChck, restore, pkgs, pidx, trace,
                 tests, itersPerTest, ti, iter, half, invocations, lastExit,
                 warnings, otherVars>>

\* One external command of buildBenches: what ran, for which suite, on what,
\* and whether it succeeded.
Event(op, s, arg, ok) == [op |-> op, s |-> s, arg |-> arg, ok |-> ok]

\* checkoutRef(bs.ref, postChck) in build: git checkout, then the hook when
\* one was given.
BuildCheckout ==
  /\ pc = "checkout"
  /\ LET s  == Suites[bi]
         bs == suites[s]
     IN  \E r \in {"ok", "checkout ref", "post-checkout"} :
           /\ r = "post-checkout" => postChck # ""
           /\ trace' = trace \o <<Event("checkout", s, bs.ref, r # "checkout ref")>> \o
                (IF r # "checkout ref" /\ postChck # ""
                 THEN <<Event("hook", s, postChck, r = "ok")>> ELSE <<>>)
           /\ tree' = IF r = "checkout ref" THEN tree ELSE bs.ref
           /\ procs' = IF r # "checkout ref" /\ postChck # ""
                        THEN CmdRun(CmdRun(procs)) ELSE CmdRun(procs)
           /\ IF r = "ok"
              THEN pc' = "expand" /\ UNCHANGED <<cache, suites, bbErr>>
              ELSE BuildFails(s, r)
  /\ UNCHANGED <<prArgs, pkgFilter, postChck, bi, restore, pkgs, pidx, tests,
                 itersPerTest, ti, iter, half, invocations, lastExit, warnings,
                 runErr, logs, spinners, restVars>>

\* pkgs, err := expandPackages(pkgFilter)
BuildExpand ==
  /\ pc = "expand"
  /\ LET s == Suites[bi]
     IN  /\ procs' = CmdRun(procs)
         /\ \/ /\ trace' = Append(trace, Event("expand", s, pkgFilter, TRUE))
               /\ pkgs' = expandPackages(pkgFilter)
               /\ pidx' = 1
               /\ pc' = "compile"
               /\ spinners' = Append(spinners, CallStart(NewSpinner(s)))
               /\ UNCHANGED <<cache, suites, bbErr>>
            \/ /\ trace' = Append(trace, Event("expand", s, pkgFilter, FALSE))
               /\ BuildFails(s, "expanding packages")
               /\ UNCHANGED <<pkgs, pidx, spinners>>
  /\ UNCHANGED <<tree, prArgs, pkgFilter, postChck, bi, restore, tests,
                 itersPerTest, ti, iter, half, invocations, lastExit, warnings,
                 runErr, logs, restVars>>

\* What the build command of buildTestBin gave: whether it exited with
\* success, and whether the test binary is there afterwards.
Built(ok, file) == [ok |-> ok, file |-> file]

\* go test -c -o dstFile pkg: for a package without test files it says so,
\* writes no file and exits with success.
GoTestC(hasTests, fault) == Built(fault # "build", hasTests /\ fault # "build")

\* bazel build //relPkg:last_test: a package without tests has no such
\* target, and bazel exits with a failure.
BazelBuild(hasTests, fault) ==
  Built(hasTests /\ fault # "build", hasTests /\ fault # "build")

\* What buildTestBin returns.
TestBin(testBin, ok, err) == [testBin |-> testBin, ok |-> ok, err |-> err]

\* A variant of buildTestBin that reports a binary for every package whose
\* build command succeeded.
buildTestBinNoStat(pkg, useBazel, hasTests, fault) ==
  LET built == IF useBazel THEN BazelBuild(hasTests, fault)
               ELSE GoTestC(hasTests, fault)
  IN  IF ~built.ok THEN TestBin(<<>>, FALSE, "building test binary")
      ELSE IF fault = "mv" THEN TestBin(<<>>, FALSE, "moving test binary")
      ELSE TestBin(pkgToTestBin(pkg), TRUE, "")

\* buildTestBin for a package that has tests or not (hasTests), by the
\* direct backend or bazel.
buildTestBin(pkg, useBazel, hasTests, fault) ==
  LET dstFile == pkgToTestBin(pkg)
      built   == IF useBazel THEN BazelBuild(hasTests, fault)
                 ELSE GoTestC(hasTests, fault)
  IN  IF ~built.ok THEN TestBin(<<>>, FALSE, "building test binary")
      ELSE IF fault = "stat" THEN TestBin(<<>>, FALSE, "looking for test binary")
      ELSE IF ~built.file THEN TestBin(<<>>, FALSE, "")
      ELSE IF fault = "mv" THEN TestBin(<<>>, FALSE, "moving test binary")
      ELSE TestBin(dstFile, TRUE, "")

\* The files buildTestBin leaves in dst: the one mv put there.
Moved(pkg, useBazel, hasTests, fault) ==
  LET built == IF useBazel THEN BazelBuild(hasTests, fault)
               ELSE GoTestC(hasTests, fault)
  IN  IF built.ok /\ built.file /\ fault = "" THEN {pkgToTestBin(pkg)} ELSE {}

\* One turn of build's loop over pkgs: the Update of the Spinner, then
\* buildTestBin, whose build command is followed by mv when it left a file;
\* after the last package the last Update and the return of nil.  The
\* deferred Stop runs on either return.
BuildCompile ==
  /\ pc = "compile"
  /\ LET s    == Suites[bi]
         bs   == suites[s]
         pkg  == pkgs[pidx]
         last == pidx = Len(pkgs)
     IN  \E hasTests \in BOOLEAN, fault \in {"", "build", "stat", "mv"} :
           LET r     == buildTestBin(pkg, bs.useBazel, hasTests, fault)
               files == IF r.ok THEN {r.testBin} ELSE {}
               moved == Moved(pkg, bs.useBazel, hasTests, fault)
               built == IF bs.useBazel THEN BazelBuild(hasTests, fault)
                        ELSE GoTestC(hasTests, fault)
               sp    == CallUpdate(Last(spinners), Fraction(pidx - 1, Len(pkgs)))
               b     == [bs EXCEPT !.last =
                          [pkg |-> pkg, hasTests |-> hasTests, fault |-> fault,
                           ok |-> r.ok, err |-> r.err]]
           IN  /\ fault = "mv" => hasTests
               /\ trace' = Append(trace, Event("compile", s, pkg, r.err = ""))
               /\ procs' = IF built.ok /\ built.file /\ fault # "stat"
                            THEN CmdRun(CmdRun(procs)) ELSE CmdRun(procs)
               /\ IF r.err # ""
                  THEN /\ cache' = DeferredCleanup(cache, bs.binDir, r.err)
                       /\ suites' = [suites EXCEPT ![s] =
                            [b EXCEPT !.phase = "failed", !.err = r.err]]
                       /\ bbErr' = r.err
                       /\ pc' = "bbReturn"
                       /\ spinners' = WithLast(spinners, BuildDeferredStop(sp))
                       /\ UNCHANGED <<pidx, bi>>
                  ELSE /\ cache' = [cache EXCEPT
                            ![bs.binDir].files = @ \cup moved,
                            ![bs.binDir].complete = last,
                            ![bs.binDir].recorded =
                              IF last THEN bs.testFiles \cup files ELSE @]
                       /\ IF last
                          THEN /\ suites' = [suites EXCEPT ![s] =
                                    [b EXCEPT !.testFiles = @ \cup files,
                                              !.phase = "built"]]
                               /\ BuildReturnsNil
                               /\ spinners' = WithLast(spinners,
                                    BuildDeferredStop(CallUpdate(sp,
                                      Fraction(Len(pkgs), Len(pkgs)))))
                               /\ UNCHANGED pidx
                          ELSE /\ suites' = [suites EXCEPT ![s] =
                                    [b EXCEPT !.testFiles = @ \cup files]]
                               /\ pidx' = pidx + 1
                               /\ spinners' = WithLast(spinners, sp)
                               /\ UNCHANGED <<pc, bi, bbErr>>
  /\ UNCHANGED <<tree, prArgs, pkgFilter, postChck, restore, pkgs, tests,
                 itersPerTest, ti, iter, half, invocations, lastExit, warnings,
                 runErr, logs, restVars>>

\* A variant of buildBenches that registers no restoration.
DeferredRestoreSkipped(reg, t, ok) == t

\* What the working tree is checked out at after buildBenches' deferred
\* call, from t: the branch when checkoutRef(ref, "") was registered and git
\* checkout succeeded (ok).  The call's error is dropped.
DeferredRestore(reg, t, ok) == IF reg.ok /\ ok THEN reg.ref ELSE t

\* buildBenches returns: the deferred checkoutRef(ref, "") runs when it was
\* registered.
BuildBenchesReturn ==
  /\ pc = "bbReturn"
  /\ IF restore.ok
     THEN \E ok \in BOOLEAN :
            /\ trace' = Append(trace, Event("restore", "", restore.ref, ok))
            /\ tree' = DeferredRestore(restore, tree, ok)
            /\ procs' = CmdRun(procs)
     ELSE /\ tree' = DeferredRestore(restore, tree, FALSE)
          /\ UNCHANGED <<trace, procs>>
  /\ IF bbErr # ""
     THEN runErr' = bbErr /\ pc' = "done"
     ELSE pc' = "runCmp" /\ UNCHANGED runErr
  /\ UNCHANGED <<cache, prArgs, pkgFilter, postChck, suites, bi, restore, bbErr,
                 pkgs, pidx, tests, itersPerTest, ti, iter, half, invocations,
                 lastExit, warnings, logs, spinners, restVars>>

(***************************************************************************)
(* runCmpBenches and runSingleBench                                        *)
(***************************************************************************)

\* A variant of intersectTests that forgets to look the name up in bs2.
intersectTestsNoLookup(bs, bs2) == bs.testFiles

\* intersectTests: the names of bs.testFiles that bs2.testFiles has too.
intersectTests(bs, bs2) == {f \in bs.testFiles : f \in bs2.testFiles}

\* The elements of a set in the order a map iteration happens to give.
RECURSIVE SetToSeq(_)
SetToSeq(S) ==
  IF S = {} THEN <<>>
  ELSE LET x == CHOOSE y \in S : TRUE IN <<x>> \o SetToSeq(S \ {x})

\* A variant of sorted that gives the names in descending order.
sortedDescending(fs) ==
  LET a == SortStrings(SetToSeq(fs))
  IN  [i \in 1..Len(a) |-> a[Len(a) + 1 - i]]

\* fileSet.sorted.
sorted(fs) == SortStrings(SetToSeq(fs))

\* A variant of the iteration body that runs the new suite first.
SuiteOfHalfSwapped(h) == IF h = 1 THEN "new" ELSE "old"

\* The body of an iteration: runSingleBench(bs1, ...) then
\* runSingleBench(bs2, ...), bs1 being the old suite and bs2 the new one.
SuiteOfHalf(h) == IF h = 1 THEN "old" ELSE "new"

\* A variant of runCmpBenches' loops whose body runs before the count is
\* looked at.
LoopEntersOnce(ts, n) == ts # <<>>

\* for i, t := range tests { for j := 0; j < itersPerTest; j++ {: the body
\* is reached when there is a test and the count is positive.
LoopEnters(ts, n) == ts # <<>> /\ 0 < n

\* run's call of runCmpBenches, up to the first benchmark run: the Spinner
\* is started, and stopped again when the loops have nothing to do.
RunCmpEnter ==
  /\ pc = "runCmp"
  /\ \E n \in Iters :
       LET ts == sorted(intersectTests(suites["old"], suites["new"]))
       IN  /\ tests' = ts
           /\ itersPerTest' = n
           /\ pc' = IF LoopEnters(ts, n) THEN "bench" ELSE "process"
           /\ spinners' = Append(spinners,
                IF LoopEnters(ts, n) THEN CallStart(NewSpinner("run"))
                ELSE RunCmpDeferredStop(CallStart(NewSpinner("run"))))
  /\ ti' = 1
  /\ iter' = 0
  /\ half' = 1
  /\ UNCHANGED <<tree, cache, prArgs, pkgFilter, postChck, suites, bi, restore,
                 bbErr, pkgs, pidx, trace, invocations, lastExit, warnings,
                 runErr, logs, procs, restVars>>

\* What the benchmark binary of the n-th run, a run of suite s, writes to
\* its standard output and standard error.
Output(s, n) == <<[suite |-> s, run |-> n]>>

\* A write of data through a file opened without O_APPEND, at the offset
\* off of that open file: it replaces what the file holds from there on
\* and extends the file as far as needed.
WriteAt(content, off, data) ==
  [i \in 1..(IF Len(content) > off + Len(data) THEN Len(content)
             ELSE off + Len(data)) |->
     IF i > off /\ i <= off + Len(data) THEN data[i - off]
     ELSE IF i <= Len(content) THEN content[i]
     ELSE [suite |-> "", run |-> 0]]

\* A variant of runSingleBench that treats every nonzero exit as fatal.
ExitIsFatalAnyNonzero(exit) == exit # "exit 0"

\* runSingleBench's error handling: exit code 1 is logged and absorbed; any
\* other failure of the spawn is returned.
ExitIsFatal(exit) == exit \notin {"exit 0", "exit 1"}

\* One runSingleBench of runCmpBenches' loops, and the loop bookkeeping up
\* to the next one: before the old suite's run the Spinner is updated; the
\* binary is run with --help and then for the benchmarks; the deferred Stop
\* runs when runCmpBenches returns.
RunSingleBench ==
  /\ pc = "bench"
  /\ invocations' = Append(invocations, [suite |-> SuiteOfHalf(half), test |-> tests[ti]])
  /\ \E exit \in {"exit 0", "exit 1", "exit 2", "not started"} :
       /\ lastExit' = exit
       /\ procs' = IF exit = "not started" THEN CmdRun(procs)
                    ELSE CmdRun(CmdRun(procs))
       /\ LET progress == BenchProgress(Fraction(ti, Len(tests)),
                                         Fraction(iter + 1, itersPerTest),
                                         testBinToPkg(tests[ti]))
              sp       == IF half = 1 THEN CallUpdate(Last(spinners), progress)
                          ELSE Last(spinners)
              returns  == \/ ExitIsFatal(exit)
                          \/ /\ half = 2
                             /\ ~(iter + 1 < itersPerTest)
                             /\ ~(ti < Len(tests))
          IN  spinners' = WithLast(spinners,
                            IF returns THEN RunCmpDeferredStop(sp) ELSE sp)
       /\ LET s  == SuiteOfHalf(half)
              f  == suites[s].outFile
              o  == Output(s, Len(invocations) + 1)
          IN  IF exit = "not started"
              THEN UNCHANGED <<logs, suites>>
              ELSE /\ logs' = [logs EXCEPT ![f.path] = WriteAt(@, f.off, o)]
                   /\ suites' = [suites EXCEPT ![s].outFile.off = @ + Len(o)]
       /\ IF ExitIsFatal(exit)
          THEN /\ runErr' = "error running"
               /\ pc' = "done"
               /\ UNCHANGED <<ti, iter, half, warnings>>
          ELSE /\ warnings' = IF exit = "exit 0" THEN warnings ELSE warnings + 1
               /\ UNCHANGED runErr
               /\ IF half = 1
                  THEN half' = 2 /\ UNCHANGED <<ti, iter, pc>>
                  ELSE /\ half' = 1
                       /\ IF iter + 1 < itersPerTest
                          THEN iter' = iter + 1 /\ UNCHANGED <<ti, pc>>
                          ELSE /\ iter' = 0
                               /\ IF ti < Len(tests)
                                  THEN ti' = ti + 1 /\ UNCHANGED pc
                                  ELSE pc' = "process" /\ UNCHANGED ti
  /\ UNCHANGED <<tree, cache, prArgs, pkgFilter, postChck, bi, restore,
                 bbErr, pkgs, pidx, trace, tests, itersPerTest, restVars>>

(***************************************************************************)
(* checkPassing                                                            *)
(***************************************************************************)

Abs(x) == IF x < 0 THEN 0 - x ELSE x

\* TableLists are the lists of tables compared; of their rows, row.Change is -1 for worse, 0 for no
\* significant change, +1 for better; row.PctDelta is in hundredths of a
\* percent.
\* The largest number of tables in a list, and of rows in a table.
MaxTables == 2

MaxRows == 1

SeqsUpTo(S, n) == UNION {[1..k -> S] : k \in 0..n}

TableLists ==
  LET Rows == [Change : {0 - 1, 0, 1}, PctDelta : {2000, 0 - 2001}]
  IN  SeqsUpTo(SeqsUpTo(Rows, MaxRows), MaxTables)

\* --threshold in hundredths: -1 (the flag's default), -0.5, 0, 0.2, 0.25.
Thresholds == {0 - 100, 0 - 50, 0, 20, 25}

\* A variant of the row test that fails a row at the bound, too.
RowExceedsInclusive(threshPct, row) ==
  row.Change = 0 - 1 /\ Abs(row.PctDelta) >= threshPct

\* worse && exceededThresh
RowExceeds(threshPct, row) ==
  row.Change = 0 - 1 /\ Abs(row.PctDelta) > threshPct

\* A variant of checkPassing without the guard.
NoThresholdNever(thresh) == FALSE

\* if thresh < 0 { return nil }
NoThreshold(thresh) == thresh < 0

\* What checkPassing returns: nil, or the error naming the row at place
\* (table, row).
GateResult(what, i, j) == [err |-> what, table |-> i, row |-> j]

Nil == GateResult("nil", 0, 0)

\* checkPassing: nil, or the error for the first row, in scan order, that is
\* worse by more than the threshold.
checkPassing(thresh, tables) ==
  IF NoThreshold(thresh) THEN Nil
  ELSE LET threshPct == thresh * 100
           bad == {ij \in {<<i, j>> : i \in 1..MaxTables + 1, j \in 1..MaxRows + 1} :
                     /\ ij[1] <= Len(tables)
                     /\ ij[2] <= Len(tables[ij[1]])
                     /\ RowExceeds(threshPct, tables[ij[1]][ij[2]])}
           first == CHOOSE ij \in bad :
                      \A kl \in bad : ij[1] < kl[1] \/ (ij[1] = kl[1] /\ ij[2] <= kl[2])
       IN  IF bad = {} THEN Nil
           ELSE GateResult("exceeded threshold", first[1], first[2])

\* outFile.Seek(offset, io.SeekStart): the new offset.
Seek(offset) == offset

\* What run returns after checkPassing, over every threshold and every list
\* of tables in tabLists.
GateOutcomes(tabLists) ==
  {IF checkPassing(t, tabs) = Nil THEN "" ELSE "exceeded threshold" :
     t \in Thresholds, tabs \in tabLists}

\* run's last steps: processBenchOutput, which may fail, and checkPassing
\* over the tables it returned.
RunProcess ==
  /\ pc = "process"
  /\ suites' = [s \in DOMAIN suites |->
                  [suites[s] EXCEPT !.outFile.off = Seek(0), !.seeks = @ + 1,
                                    !.read = logs[suites[s].outFile.path]]]
  /\ \/ runErr' = "processing benchmark output"
     \/ runErr' \in GateOutcomes(
                      IF /\ logs[suites["old"].outFile.path] = <<>>
                         /\ logs[suites["new"].outFile.path] = <<>>
                      THEN {<<>>} ELSE TableLists)
  /\ pc' = "done"
  /\ UNCHANGED <<tree, cache, prArgs, pkgFilter, postChck, bi, restore,
                 bbErr, pkgs, pidx, trace, tests, itersPerTest, ti, iter, half,
                 invocations, lastExit, warnings, logs, otherVars>>

\* checkPassing applied to the inputs drawn at the start.
GateCheck ==
  /\ gResult = Pending
  /\ gResult' = checkPassing(gThresh, gTables)
  /\ UNCHANGED <<pipeVars, gThresh, gTables, spinVars, refVars>>

(***************************************************************************)
(* Specifications                                                          *)
(***************************************************************************)

\* The tool is invoked.
FirstRun ==
  /\ pc = "idle"
  /\ \E args \in FilterArgs, o \in Refs, n \in Refs : StartRun(args, o, n)

\* The tool is invoked again, over the cache root and the working tree the
\* earlier invocations left.
NextRun ==
  /\ pc = "done"
  /\ \E args \in FilterArgs, o \in Refs, n \in Refs : StartRun(args, o, n)

\* The rest of run after buildBenches, as one step: runCmpBenches,
\* processBenchOutput and checkPassing read the suites and change neither
\* the cache nor the working tree; the benchmark runs, their output and
\* runCmpBenches' Spinner are left out.
RunRest ==
  /\ pc = "runCmp"
  /\ runErr' \in {"", "error running"}
  /\ pc' = "done"
  /\ UNCHANGED <<tree, cache, prArgs, pkgFilter, postChck, suites, bi, restore,
                 bbErr, pkgs, pidx, trace, tests, itersPerTest, ti, iter, half,
                 invocations, lastExit, warnings, logs, otherVars>>

\* One invocation of the tool, every step of it.
Next ==
  \/ FirstRun
  \/ BuildBenchesEnter
  \/ BuildOpen
  \/ BuildCheckout
  \/ BuildExpand
  \/ BuildCompile
  \/ BuildBenchesReturn
  \/ RunCmpEnter
  \/ RunSingleBench
  \/ RunProcess

Spec == Init /\ [][Next]_vars

\* Any number of invocations one after the other over the same cache root:
\* buildBenches step by step, the benchmark phase as one step.
CacheNext ==
  \/ FirstRun
  \/ NextRun
  \/ BuildBenchesEnter
  \/ BuildOpen
  \/ BuildCheckout
  \/ BuildExpand
  \/ BuildCompile
  \/ BuildBenchesReturn
  \/ RunRest

CacheSpec == Init /\ [][CacheNext]_vars

\* The most calls of build on one suite.
MaxBuildCalls == 2

\* buildBenches is called once more on the suites it has built.
BuildBenchesAgain ==
  /\ pc = "runCmp"
  /\ \A s \in {"old", "new"} : suites[s].calls < MaxBuildCalls
  /\ pc' = "buildBenches"
  /\ UNCHANGED <<tree, cache, prArgs, pkgFilter, postChck, suites, bi, restore,
                 bbErr, pkgs, pidx, trace, tests, itersPerTest, ti, iter, half,
                 invocations, lastExit, warnings, runErr, logs, otherVars>>

\* One invocation in which the suites are handed to buildBenches again.
RebuildNext ==
  \/ FirstRun
  \/ BuildBenchesEnter
  \/ BuildOpen
  \/ BuildCheckout
  \/ BuildExpand
  \/ BuildCompile
  \/ BuildBenchesReturn
  \/ BuildBenchesAgain
  \/ RunRest

RebuildSpec == Init /\ [][RebuildNext]_vars

\* Something other than benchdiff makes a directory inside a binary
\* directory, between two invocations.
ExternalMkdir ==
  /\ pc = "done"
  /\ \E d \in DOMAIN cache :
       /\ cache[d].dirs = {}
       /\ cache' = [cache EXCEPT ![d].dirs = {<<"m", "_", "a", "a">>}]
  /\ UNCHANGED <<pc, tree, prArgs, pkgFilter, postChck, suites, bi, restore,
                 bbErr, pkgs, pidx, trace, tests, itersPerTest, ti, iter, half,
                 invocations, lastExit, warnings, runErr, logs, otherVars>>

\* The same command line is run again.
RepeatRun ==
  /\ pc = "done"
  /\ StartRun(prArgs, suites["old"].ref, suites["new"].ref)

\* The same command, run over and over on a cache root that something else
\* writes to as well.
CorruptNext ==
  \/ FirstRun
  \/ RepeatRun
  \/ BuildBenchesEnter
  \/ BuildOpen
  \/ BuildCheckout
  \/ BuildExpand
  \/ BuildCompile
  \/ BuildBenchesReturn
  \/ RunRest
  \/ ExternalMkdir

CorruptSpec == Init /\ [][CorruptNext]_vars

\* checkPassing alone, over every threshold and list of tables.
GateInit ==
  /\ tree \in Branches
  /\ PipeIdle
  /\ gThresh \in Thresholds
  /\ gTables \in TableLists
  /\ gResult = Pending
  /\ SpinIdle
  /\ RefsIdle

GateNext == GateCheck

GateSpec == GateInit /\ [][GateNext]_vars

\* A Spinner and the one goroutine that uses it, making calls in any order.
SpinnerInit ==
  /\ tree \in Branches
  /\ PipeIdle
  /\ GateIdle
  /\ SpinIdle
  /\ RefsIdle

SpinnerNext ==
  \/ SpinnerStart
  \/ SpinnerUpdate
  \/ SpinnerStop
  \/ SpinnerStopReturn
  \/ RenderTick
  \/ RenderReceive
  \/ RenderClosed
  \/ RenderPrint
  \/ RenderFlush
  \/ RenderFinalFlush
  \/ RenderExit

SpinnerSpec == SpinnerInit /\ [][SpinnerNext]_vars

\* The same under fair scheduling: a goroutine that can take a step takes
\* one; a select that finds the channel ready over and over, between
\* ticks, takes the channel's case in the end, since select chooses among
\* its ready cases at random.
SpinnerFair ==
  /\ WF_vars(RenderPrint)
  /\ WF_vars(RenderFlush)
  /\ WF_vars(RenderFinalFlush)
  /\ WF_vars(RenderExit)
  /\ WF_vars(SpinnerStopReturn)
  /\ SF_vars(RenderReceive)
  /\ SF_vars(RenderClosed)

SpinnerFairSpec == SpinnerInit /\ [][SpinnerNext]_vars /\ SpinnerFair

\* parseGitRefs alone, over the refs a user can pass and the commits HEAD
\* can be at.
RefsInit ==
  /\ tree \in Branches
  /\ PipeIdle
  /\ GateIdle
  /\ SpinIdle
  /\ head \in CommitIds
  /\ oldArg \in OldArgs
  /\ newArg \in NewArgs
  /\ gitSays \in CatFileWordings
  /\ gitFault = NoFault
  /\ parsed = NotParsed

RefsNext == ParseGitRefs

RefsSpec == RefsInit /\ [][RefsNext]_vars

\* The refs parseGitRefs' commands can be given: what the user passes, HEAD,
\* the ids of the commits and their first seven digits, and the first
\* parents of those.
\* One of parseGitRefs' commands may fail for a reason of its own.
GitFaults ==
  LET ids   == {Repo[c].sha : c \in CommitIds}
      named == (NewArgs \ {<<>>}) \cup {RefHEAD} \cup ids
                 \cup {SubSeq(x, 1, AbbrevLen) : x \in ids}
      args  == named \cup {x \o <<"~">> : x \in named}
  IN  {NoFault} \cup
      {[cmd |-> cmd, arg |-> x] :
         cmd \in {"rev-parse", "cat-file", "log"}, x \in args}

\* parseGitRefs in a repository where one git command may fail.
FaultInit ==
  /\ tree \in Branches
  /\ PipeIdle
  /\ GateIdle
  /\ SpinIdle
  /\ head \in CommitIds
  /\ oldArg \in OldArgs
  /\ newArg \in NewArgs
  /\ gitSays \in CatFileWordings
  /\ gitFault \in GitFaults
  /\ parsed = NotParsed

FaultNext == ParseGitRefs

FaultSpec == FaultInit /\ [][FaultNext]_vars

(***************************************************************************)
(* Properties                                                              *)
(***************************************************************************)

SuiteNames == {"old", "new"}

\* The runs of binary b among the invocations, in order.
RunsOf(b) == SelectSeq(invocations, LAMBDA r : r.test = b)

\* runCmpBenches has returned nil and run has not gone further.
RunCmpReturnedNil == pc = "process"

\* C1: when runCmpBenches returns nil with itersPerTest = N >= 1, every
\* binary of both suites was run exactly 2N times, old suite and new suite in
\* strict alternation starting with the old one, and each old run is
\* followed at once by the new run of the same binary.
C1_Interleaved ==
  (RunCmpReturnedNil /\ itersPerTest >= 1) =>
    /\ \A b \in suites["old"].testFiles \cap suites["new"].testFiles :
         /\ Len(RunsOf(b)) = 2 * itersPerTest
         /\ \A k \in 1..Len(RunsOf(b)) :
              RunsOf(b)[k].suite = IF k % 2 = 1 THEN "old" ELSE "new"
    /\ \A k \in 1..Len(invocations) :
         k % 2 = 1 =>
           /\ k + 1 <= Len(invocations)
           /\ invocations[k + 1].test = invocations[k].test

\* Two binaries, two iterations, every run made, some of them exiting 1.
C1_Witness ==
  /\ RunCmpReturnedNil
  /\ itersPerTest = 2
  /\ Len(tests) = 2
  /\ Len(invocations) = 8
  /\ warnings >= 1

\* The build of suite s failed after it had created the binary directory.
FailedAfterMkdir(s) == suites[s].phase = "failed" /\ suites[s].created

\* The error build returns for a failed command.
ErrsOfOp(op) ==
  CASE op = "checkout" -> {"checkout ref"}
    [] op = "hook"     -> {"post-checkout"}
    [] op = "expand"   -> {"expanding packages"}
    [] op = "compile"  -> {"building test binary", "looking for test binary",
                           "moving test binary"}
    [] OTHER           -> {}

Seen(s) == suites[s].seen[1]

LookedUp(s) == suites[s].binDir # <<>>

\* C4: a build that finds its binary directory there runs no command: no
\* checkout, no hook, no package expansion, no compile; every command of
\* buildBenches other than the restoring checkout belongs to a build that
\* created its directory, and such a build checks out, expands and compiles
\* each package at most once.
C4_PureCacheHit ==
  /\ \A s \in SuiteNames :
       (LookedUp(s) /\ ~suites[s].created) =>
         /\ suites[s].phase \in {"hit", "failed"}
         /\ \A i \in 1..Len(trace) : trace[i].s # s
  /\ \A i \in 1..Len(trace) :
       trace[i].op # "restore" =>
         /\ suites[trace[i].s].created
         /\ \A j \in 1..Len(trace) :
              (trace[j].s = trace[i].s /\ trace[j].op = trace[i].op
                 /\ trace[j].arg = trace[i].arg) => j = i

\* Both suites of a later run hit the cache: buildBenches ran no command but
\* the restoring checkout.
C4_Witness ==
  /\ pc = "runCmp"
  /\ suites["old"].phase = "hit"
  /\ suites["new"].phase = "hit"
  /\ suites["old"].ref # suites["new"].ref
  /\ suites["old"].testFiles # {}
  /\ \A i \in 1..Len(trace) : trace[i].op = "restore"

\* The orders the user can type the same package arguments in.
Reorderings(args) ==
  {[i \in 1..Len(args) |-> args[f[i]]] : f \in Permutations(1..Len(args))}

\* C5: whatever order the package arguments were typed in, the binary
\* directory of each suite is the one every reordering of the arguments
\* resolves to.
C5_OrderIndependentKey ==
  \A s \in SuiteNames :
    LookedUp(s) =>
      \A p \in Reorderings(prArgs) :
        /\ hash(CanonFilter(p)) = hash(pkgFilter)
        /\ testBinDir(suites[s].ref, CanonFilter(p)) = suites[s].binDir

\* Arguments typed out of order hit the directory built for the sorted
\* filter.
C5_Witness ==
  \E s \in SuiteNames :
    /\ suites[s].phase = "hit"
    /\ prArgs # pkgFilter
    /\ Len(prArgs) = 2
    /\ Seen(s).filter = pkgFilter

Range(q) == {q[i] : i \in 1..Len(q)}

\* Both suites are built.
BothBuilt == \A s \in SuiteNames : suites[s].phase \in {"hit", "built"}

\* C6: intersectTests gives the same set in both directions, exactly the
\* names both suites have, and these are the tests runCmpBenches is given.
C6_IntersectCommutes ==
  BothBuilt =>
    LET A == suites["old"]
        B == suites["new"]
    IN  /\ intersectTests(A, B) = intersectTests(B, A)
        /\ \A f \in intersectTests(A, B) : f \in A.testFiles /\ f \in B.testFiles
        /\ \A f \in A.testFiles : f \in B.testFiles => f \in intersectTests(A, B)
        /\ pc \in {"bench", "process"} => Range(tests) = intersectTests(A, B)

\* The old suite has a binary the new one lacks, and they share another.
C6_Witness ==
  /\ pc = "bench"
  /\ suites["old"].testFiles \ suites["new"].testFiles # {}
  /\ suites["old"].ref # suites["new"].ref
  /\ Len(tests) = 1

\* Some row of some table is worse by strictly more than pct.
SomeRowWorseBy(tables, pct) ==
  \E i \in 1..Len(tables) : \E j \in 1..Len(tables[i]) :
    /\ tables[i][j].Change = 0 - 1
    /\ Abs(tables[i][j].PctDelta) > pct

GateFailed == gResult.err = "exceeded threshold"

C8_NoThresholdPasses ==
  (gResult # Pending /\ gThresh < 0) => gResult = Nil

\* The default threshold, and a worse row far off.
C8_Witness ==
  /\ gThresh = 0 - 100
  /\ gResult = Nil
  /\ SomeRowWorseBy(gTables, 2000)

\* The runs runCmpBenches makes when none is fatal.
Schedule(ts, n) ==
  [k \in 1..(2 * n * Len(ts)) |->
     [suite |-> IF k % 2 = 1 THEN "old" ELSE "new",
      test  |-> ts[((k - 1) \div (2 * n)) + 1]]]

IsPrefix(p, q) == Len(p) <= Len(q) /\ SubSeq(q, 1, Len(p)) = p

C9_State ==
  /\ lastExit = "exit 1" =>
       /\ runErr # "error running"
       /\ warnings >= 1
       /\ pc = "bench" <=> Len(invocations) < Len(Schedule(tests, itersPerTest))
  /\ lastExit \in {"exit 2", "not started"} =>
       /\ runErr = "error running"
       /\ pc = "done"
  /\ pc \in {"bench", "process", "done"} =>
       IsPrefix(invocations, Schedule(tests, itersPerTest))

C9_Step ==
  /\ lastExit \in {"exit 2", "not started"} => invocations' = invocations
  /\ (lastExit' = "exit 1" /\ invocations' # invocations) =>
       /\ warnings' = warnings + 1
       /\ runErr' = ""
       /\ pc' \in {"bench", "process"}

\* C9: a run that exits 1 is logged and absorbed: runCmpBenches returns no
\* error for it and goes on down its schedule; a run that exits otherwise
\* or does not start makes it return an error, and no run is made after.
C9_ExitOneAbsorbed == []C9_State /\ [][C9_Step]_vars

\* Every run of the first binary exited 1 and the second binary is next.
C9_Witness ==
  /\ pc = "bench"
  /\ ti = 2
  /\ iter = 0
  /\ half = 1
  /\ lastExit = "exit 1"
  /\ warnings = 2 * itersPerTest

\* buildBenches has returned.
BuildBenchesReturned == pc \in {"runCmp", "bench", "process", "done"}

\* The statement of C10 as written: after buildBenches the working tree is
\* at the branch it was on before.
C10_AlwaysRestored ==
  (BuildBenchesReturned /\ restore.start \in Branches) => tree = restore.start

\* The refs the builds of this run checked out successfully.
CheckedOut == {trace[i].arg : i \in {j \in 1..Len(trace) :
                                       trace[j].op = "checkout" /\ trace[j].ok}}

\* C10: when buildBenches returns after finding HEAD on a branch, its last
\* command was the checkout of that branch, whichever way it returns; the
\* working tree is at that branch if that checkout succeeded or no build had
\* moved it, and otherwise at a suite ref a build checked out.  When
\* getCurSymbolicRef fails nothing was run and the tree is where it was.
C10_RestoreAttempted ==
  (BuildBenchesReturned /\ restore.start \in Branches) =>
    IF restore.ok
    THEN /\ trace # <<>>
         /\ Last(trace).op = "restore"
         /\ Last(trace).arg = restore.start
         /\ Last(trace).ok => tree = restore.start
         /\ tree # restore.start => tree \in CheckedOut
    ELSE trace = <<>> /\ tree = restore.start

\* A build failed after it had moved the working tree, and the tree is back
\* on the branch.
C10_Witness ==
  /\ BuildBenchesReturned
  /\ restore.ok
  /\ runErr = "expanding packages"
  /\ CheckedOut # {}
  /\ tree = restore.start

\* The caller made the call name in this step.
Called(name) == caller'.calls = caller.calls + 1 /\ caller'.last = name

C11_State ==
  /\ history.spawned <= 1
  /\ history.spawned = 0 <=> spinner.ch = "nil"
  /\ renderer.pc = "none" <=> spinner.ch = "nil"

C11_Step ==
  /\ spinner'.ch # spinner.ch =>
       \/ spinner.ch = "nil" /\ spinner'.ch = "open" /\ Called("Start")
       \/ spinner.ch = "open" /\ spinner'.ch = "closed" /\ Called("Stop")
  /\ (Called("Start") /\ spinner.ch # "nil") =>
       /\ caller'.pc = "panic"
       /\ caller'.panic = "Spinner started twice"
       /\ history'.spawned = history.spawned
       /\ spinner' = spinner
       /\ renderer' = renderer

\* C11: a Spinner goes from idle (no channel) to running by Start and from
\* running to stopped (channel closed) by Stop, and nowhere else; Start on a
\* Spinner that was started, running or stopped, panics with "Spinner
\* started twice" and spawns nothing: there is never a second renderer.
C11_StartOnce == []C11_State /\ [][C11_Step]_vars

\* Start after Stop has returned.
C11_Witness ==
  /\ caller.panic = "Spinner started twice"
  /\ spinner.ch = "closed"
  /\ history.stopReturned
  /\ history.spawned = 1

C12_State ==
  /\ spinner.buf = <<>>
  /\ (renderer.pc = "select" /\ history.recvd # <<>>) =>
       /\ out # <<>>
       /\ Last(out).progress = Last(history.recvd)

C12_Step ==
  /\ (Called("Update") /\ spinner.ch = "open") => caller'.pc = "Update"
  /\ (caller.pc = "Update" /\ caller'.pc # "Update") =>
       /\ caller'.pc = "ready"
       /\ renderer.pc = "select"
       /\ renderer'.pc = "render"
       /\ renderer'.progress = caller.arg
       /\ history'.recvd = Append(history.recvd, caller.arg)
  /\ history'.recvd # history.recvd => renderer.pc = "select"

\* C12: Update on a running Spinner returns in the very step in which the
\* renderer receives its value, never before; the channel holds no value, so
\* at most the one update of the blocked caller is in flight; and when the
\* renderer is back at its select, the last line it flushed shows the last
\* value it received.
C12_Rendezvous == []C12_State /\ [][C12_Step]_vars

\* Two updates, received and flushed in the order they were made.
C12_Witness ==
  /\ history.recvd = <<"1/2", "2/2">>
  /\ renderer.pc = "select"
  /\ caller.pc = "ready"
  /\ \E i \in 1..Len(out) : \E j \in (i + 1)..Len(out) :
       out[i].progress = "1/2" /\ out[j].progress = "2/2"

C13_State ==
  history.stopReturned =>
    /\ renderer.pc = "exited"
    /\ spinner.ch = "closed"
    /\ spinner.wg = 0
    /\ spinner.w = <<>>
    /\ history.flushedLast

C13_Step == history.stopReturned => (out' = out /\ spinner'.w = spinner.w)

\* C13: when Stop has returned the channel is closed, the renderer has seen
\* it, done its last flush and exited, and from then on nothing is printed
\* or flushed.
C13_StopWaits == []C13_State /\ [][C13_Step]_vars

\* Stop returned after a tick and an update were rendered.
C13_Witness ==
  /\ history.stopReturned
  /\ history.ticks >= 1
  /\ history.recvd # <<>>
  /\ Len(out) >= 2

\* parseGitRefs has returned.
RefsParsed == parsed # NotParsed

\* The ref x, typed by the user, names no object of the repository.
NamesNothing(x) == x # <<>> /\ Resolve(x, head) = "none"

\* C14, as written: every --new or --old that names no object makes
\* parseGitRefs fail with "invalid git ref" quoting that ref, and the refs
\* it returns passed checkValidRef.
C14_InvalidRefRejected ==
  RefsParsed =>
    /\ NamesNothing(newArg) =>
         parsed.err = "invalid git ref" /\ parsed.bad = newArg
    /\ (~NamesNothing(newArg) /\ oldArg # Lastmerge /\ NamesNothing(oldArg)) =>
         parsed.err = "invalid git ref" /\ parsed.bad = oldArg
    /\ parsed.err = "" =>
         /\ checkValidRef(parsed.old, head, gitSays).ok
         /\ checkValidRef(parsed.new, head, gitSays).ok

\* The commit the new ref stands for: HEAD when none was given.
NewCommit == IF newArg = <<>> THEN head ELSE Resolve(newArg, head)

\* The merge commits reachable from c.
MergesFrom(c) == {k \in Reachable(c) : Len(Repo[k].parents) >= 2}

\* x is the full id of commit c or its first seven digits.
IdOf(x, c) == x \in {Repo[c].sha, SubSeq(Repo[c].sha, 1, AbbrevLen)}

\* C15: when the new ref is empty or names a commit, the new ref returned
\* is the id of HEAD, or of the commit named; with no old ref and a new
\* commit that has a parent, parseGitRefs succeeds and the old ref returned
\* is the id of its first parent; with "lastmerge" the old ref returned is
\* the id of the latest merge commit reachable from the new one; an old ref
\* that names a commit is returned as that commit's id.
C15_Defaults ==
  (RefsParsed /\ NewCommit # "none") =>
    /\ (oldArg = <<>> /\ Repo[NewCommit].parents # <<>>) => parsed.err = ""
    /\ parsed.err = "" =>
         /\ IdOf(parsed.new, NewCommit)
         /\ Resolve(parsed.new, head) = NewCommit
         /\ oldArg = <<>> =>
              /\ Repo[NewCommit].parents # <<>>
              /\ IdOf(parsed.old, Repo[NewCommit].parents[1])
              /\ RevParse(parsed.new \o <<"~">>, head).out =
                   Repo[Resolve(parsed.old, head)].sha
         /\ oldArg = Lastmerge =>
              /\ Resolve(parsed.old, head) \in MergesFrom(NewCommit)
              /\ \A k \in MergesFrom(NewCommit) :
                   Repo[k].date <= Repo[Resolve(parsed.old, head)].date
              /\ IdOf(parsed.old, Resolve(parsed.old, head))
         /\ (oldArg # <<>> /\ oldArg # Lastmerge /\ Resolve(oldArg, head) # "none") =>
              IdOf(parsed.old, Resolve(oldArg, head))

\* New ref abc1234 and no old ref: the old ref is the id of abc1234~.
C15_Witness ==
  /\ RefsParsed
  /\ parsed.err = ""
  /\ newArg = <<"a", "b", "c", "1", "2", "3", "4">>
  /\ oldArg = <<>>
  /\ parsed.new = newArg
  /\ parsed.old = Rep("2", 7)

\* C16, as written: build goes past its guard at most once for a suite,
\* whatever its first call produced; once buildBenches has built the suites,
\* a further call of build panics with "benchSuite already built".
C16_BuiltOnce ==
  \A s \in SuiteNames :
    /\ suites[s].builds <= 1
    /\ suites[s].calls >= 2 =>
         /\ pc = "panic"
         /\ runErr = "benchSuite already built"

\* C17, as written: for a package without tests, by either backend and with
\* nothing else going wrong, buildTestBin returns no error and no binary,
\* and build goes on: the suite has not failed and has no binary of that
\* package.
C17_NoTestsNoError ==
  \A s \in SuiteNames :
    LET l == suites[s].last
    IN  (l.pkg # <<>> /\ ~l.hasTests /\ l.fault = "") =>
          /\ l.err = ""
          /\ ~l.ok
          /\ suites[s].phase # "failed"
          /\ pkgToTestBin(l.pkg) \notin suites[s].testFiles

\* C18: a build that found its binary directory there with only regular
\* files in it has exactly their names as its test files; one that found a
\* directory inside it returned "unexpected directory", which buildBenches
\* and run return in turn: run ends with that error without reaching
\* runCmpBenches.
C18_HitListsOrAborts ==
  \A s \in SuiteNames :
    /\ suites[s].phase = "hit" =>
         /\ Seen(s).dirs = {}
         /\ suites[s].testFiles = Seen(s).files
    /\ (suites[s].seen # <<>> /\ Seen(s).dirs # {}) =>
         /\ suites[s].phase = "failed"
         /\ suites[s].err = "unexpected directory"
         /\ bbErr = "unexpected directory"
         /\ pc \in {"bbReturn", "done"}
         /\ pc = "done" => runErr = "unexpected directory"
         /\ invocations = <<>>

\* A later run found a directory inside the binary directory an earlier run
\* had filled, and ended.
C18_Witness ==
  \E s \in SuiteNames :
    /\ suites[s].seen # <<>>
    /\ Seen(s).dirs # {}
    /\ Seen(s).files # {}
    /\ Seen(s).complete
    /\ pc = "done"

\* The n-th run was started: its binary wrote its output.
RunStarted(n) == n < Len(invocations) \/ lastExit # "not started"

\* What the runs of suite s wrote, in the order they were made.
OutputsOf(s) ==
  LET idx == SelectSeq([k \in 1..Len(invocations) |-> k],
                       LAMBDA k : invocations[k].suite = s /\ RunStarted(k))
  IN  [i \in 1..Len(idx) |-> Output(s, idx[i])[1]]

\* C19, as written: the output file of a suite holds what the runs of that
\* suite wrote, all of it and in the order of the runs; it is rewound once,
\* by processBenchOutput, and what is read from it then is that.
C19_LogAccumulates ==
  \A s \in SuiteNames :
    suites[s].outFile # NoFile =>
      /\ logs[suites[s].outFile.path] = OutputsOf(s)
      /\ suites[s].seeks <= 1
      /\ suites[s].seeks = 0 => suites[s].outFile.off = Len(OutputsOf(s))
      /\ suites[s].seeks = 1 =>
           /\ pc = "done"
           /\ suites[s].outFile.off = 0
           /\ suites[s].read = OutputsOf(s)

\* C20, as written: whatever refs the suites are of, the same one included,
\* the two suites have their output in different files, and the file of a
\* suite holds nothing a run of the other suite wrote.
C20_LogsDistinct ==
  /\ (suites["old"].outFile # NoFile /\ suites["new"].outFile # NoFile) =>
       suites["old"].outFile.path # suites["new"].outFile.path
  /\ \A s \in SuiteNames :
       suites[s].outFile # NoFile =>
         \A i \in 1..Len(logs[suites[s].outFile.path]) :
           logs[suites[s].outFile.path][i].suite = s

\* The binary of the k-th benchmark run.
TestOf(k) == invocations[k].test

\* C22: the binaries are run in ascending order of their names: tests holds
\* the shared binaries, each once, in strictly ascending order; a run of
\* one binary is never followed, however much later, by a run of a binary
\* with a smaller name; no binary is run more than 2 * itersPerTest times,
\* and the first run of a binary comes only after every run of the binary
\* before it was made.
C22_AscendingOrder ==
  pc \in {"bench", "process"} =>
    /\ \A i \in 1..Len(tests) : \A j \in 1..Len(tests) :
         i < j => StrLess(tests[i], tests[j])
    /\ {tests[i] : i \in 1..Len(tests)} =
         suites["old"].testFiles \cap suites["new"].testFiles
    /\ \A k \in 1..Len(invocations) : \A l \in 1..Len(invocations) :
         k < l => (TestOf(k) = TestOf(l) \/ StrLess(TestOf(k), TestOf(l)))
    /\ \A b \in {TestOf(k) : k \in 1..Len(invocations)} :
         /\ Len(RunsOf(b)) <= 2 * itersPerTest
         /\ \A c \in {TestOf(k) : k \in 1..Len(invocations)} :
              StrLess(b, c) => Len(RunsOf(b)) = 2 * itersPerTest

\* Two iterations of the first binary were made and the second binary is
\* being run.
C22_Witness ==
  /\ pc = "bench"
  /\ itersPerTest = 2
  /\ Len(tests) = 2
  /\ Len(invocations) = 5
  /\ TestOf(5) = tests[2]
  /\ TestOf(4) = tests[1]

\* What parseGitRefs hands to shortenRef as the new ref, and what comes back.
NewResolved ==
  IF newArg = <<>> THEN getCurRef(head) ELSE getRefAsSHA(newArg, head)

NewShortened == shortenRef(NewResolved.ref, head, gitSays)

\* The same for the old ref.
OldResolved ==
  IF oldArg = <<>> THEN getPrevRef(NewShortened, head)
  ELSE IF oldArg = Lastmerge THEN Got(LogMerges(NewShortened, head).out, "")
  ELSE getRefAsSHA(oldArg, head)

OldShortened == shortenRef(OldResolved.ref, head, gitSays)

\* checkValidRef accepts x.
Valid(x) ==
  checkValidRef(x, head, gitSays).ok /\ checkValidRef(x, head, gitSays).err = ""

\* The prefixes of ref, ref among them, that checkValidRef accepts.
ValidPrefixes(ref) ==
  {p \in {SubSeq(ref, 1, k) : k \in 1..Len(ref)} : Valid(p)}

\* short is the shortest prefix of ref that checkValidRef accepts, or ref
\* itself when it accepts none.
IsMinimalPrefix(short, ref) ==
  IF ValidPrefixes(ref) = {} THEN short = ref
  ELSE /\ short \in ValidPrefixes(ref)
       /\ \A p \in ValidPrefixes(ref) : Len(short) <= Len(p)

\* The statement of C24 as written: shortenRef gives the shortest prefix
\* that is a valid reference, and the full identifier when there is none.
C24_MinimalPrefix ==
  (RefsParsed /\ NewResolved.err = "") =>
    IsMinimalPrefix(NewShortened, NewResolved.ref)

\* short is what shortenRef is to give for ref: the first seven characters
\* when ref is longer, they are hexadecimal digits and checkValidRef
\* accepts them; otherwise ref.
SevenOrFull(short, ref) ==
  LET seven == IF Len(ref) > AbbrevLen THEN SubSeq(ref, 1, AbbrevLen) ELSE ref
  IN  /\ short \in {ref, seven}
      /\ short # ref <=> (Len(ref) > AbbrevLen /\ IsHex(seven) /\ Valid(seven))
      /\ Valid(ref) => (Valid(short) /\ Resolve(short, head) = Resolve(ref, head))

\* C24: shortenRef gives the first seven characters of a ref when they are
\* hexadecimal digits that checkValidRef accepts, and the ref unchanged
\* otherwise; a valid ref stays valid and names the same commit; and what
\* parseGitRefs returns on success is what shortenRef gave.
C24_SevenOrFull ==
  (RefsParsed /\ NewResolved.err = "") =>
    /\ SevenOrFull(NewShortened, NewResolved.ref)
    /\ (Valid(NewShortened) /\ OldResolved.err = "") =>
         SevenOrFull(OldShortened, OldResolved.ref)
    /\ parsed.err = "" =>
         (parsed.new = NewShortened /\ parsed.old = OldShortened)

\* New ref main, whose first seven digits two commits share, is kept in
\* full; old ref c4 is cut to seven digits.
C24_Witness ==
  /\ RefsParsed
  /\ parsed.err = ""
  /\ newArg = RefMain
  /\ oldArg = Repo["c4"].sha
  /\ parsed.new = Repo["c6"].sha
  /\ parsed.old = Rep("4", AbbrevLen)

\* The build of suite s found a directory that a build of the same ref and
\* the same filter had filled and returned nil.
HitOfSameBuild(s) ==
  /\ suites[s].phase = "hit"
  /\ Seen(s).complete
  /\ Seen(s).ref = suites[s].ref
  /\ Seen(s).filter = pkgFilter
  /\ Seen(s).dirs = {}

\* C27: a build that finds the directory a successful build of the same ref
\* and filter filled has the testFiles that build had when it returned, and
\* they are the files of the directory.
C27_HitEqualsFresh ==
  \A s \in SuiteNames :
    HitOfSameBuild(s) =>
      /\ suites[s].testFiles = Seen(s).recorded
      /\ suites[s].testFiles = Seen(s).files

\* Both suites of a later invocation found their directories, one of them
\* holding two binaries.
C27_Witness ==
  /\ HitOfSameBuild("old")
  /\ HitOfSameBuild("new")
  /\ suites["old"].ref # suites["new"].ref
  /\ Cardinality(suites["old"].testFiles) = 2

\* buildBenches was called while HEAD was detached.
StartedDetached == restore.start \in Refs

\* The checkouts of the builds of this run that succeeded, in order.
Checkouts == SelectSeq(trace, LAMBDA e : e.op = "checkout" /\ e.ok)

\* C28: when buildBenches is called while HEAD is detached it registers no
\* restoration and runs no checkout of its own: the working tree is at the
\* ref of the last checkout a build made, or where it was when no build
\* made one, also after buildBenches has returned.
C28_DetachedNotRestored ==
  StartedDetached =>
    /\ ~restore.ok
    /\ \A i \in 1..Len(trace) : trace[i].op # "restore"
    /\ tree = IF Checkouts = <<>> THEN restore.start ELSE Last(Checkouts).arg

\* Both suites were built from scratch and buildBenches has returned: the
\* tree is at the ref of the new suite, not at the commit it started from.
C28_Witness ==
  /\ StartedDetached
  /\ BuildBenchesReturned
  /\ suites["old"].phase = "built"
  /\ suites["new"].phase = "built"
  /\ tree = suites["new"].ref
  /\ tree # restore.start

\* processBenchOutput was called.
Processed == suites["old"].seeks > 0

\* C30: when the suites share no binary or the count is not positive,
\* runCmpBenches runs no benchmark and returns nil; checkPassing passes an
\* empty list of tables under every threshold; and run, when reading the
\* output files does not fail, returns nil.
C30_NothingRunPasses ==
  /\ (pc \in {"bench", "process", "done"} /\ (tests = <<>> \/ itersPerTest <= 0)) =>
       /\ invocations = <<>>
       /\ pc # "bench"
       /\ runErr # "error running"
       /\ pc = "process" => runErr = ""
       /\ Processed => runErr \in {"", "processing benchmark output"}
  /\ \A t \in Thresholds : checkPassing(t, <<>>) = Nil

\* Both suites were built and hold binaries, none of them shared; nothing
\* was run and run returned nil.
C30_Witness ==
  /\ pc = "done"
  /\ Processed
  /\ suites["old"].testFiles # {}
  /\ suites["new"].testFiles # {}
  /\ tests = <<>>
  /\ itersPerTest > 0
  /\ invocations = <<>>
  /\ runErr = ""

\* The first of parseGitRefs' queries that failed other than by finding no
\* such object, as the error it gives: "" when none did.  The queries are
\* the rev-parse of the new ref, the cat-file of what it was shortened to,
\* the query for the old ref and the cat-file of what that was shortened to.
FirstQueryError ==
  LET nv == checkValidRef(NewShortened, head, gitSays)
      ov == checkValidRef(OldShortened, head, gitSays)
      lm == LogMerges(NewShortened, head)
  IN  IF NewResolved.err # "" THEN NewResolved.err
      ELSE IF nv.err # "" THEN nv.err
      ELSE IF ~nv.ok THEN ""
      ELSE IF oldArg = Lastmerge /\ ~lm.ok THEN lm.msg
      ELSE IF OldResolved.err # "" THEN OldResolved.err
      ELSE ov.err

\* C29, as written: when one of parseGitRefs' queries fails, parseGitRefs
\* returns the error of that query and no refs.
C29_QueryErrorReturned ==
  (RefsParsed /\ FirstQueryError # "") =>
    /\ parsed.err = FirstQueryError
    /\ parsed.old = <<>>
    /\ parsed.new = <<>>

\* The renderer prints a line in this step.
Redraws == renderer.pc = "render" /\ renderer'.pc = "flush"

\* The glyph after g in the cycle | / - \.
GlyphAfter(g) ==
  LET i == CHOOSE k \in 1..Len(spinnerChars) : spinnerChars[k] = g
  IN  spinnerChars[(i % Len(spinnerChars)) + 1]

C23_Step ==
  Redraws =>
    /\ Len(spinner'.w) = Len(spinner.w) + 1
    /\ Last(spinner'.w).progress =
         (IF history.recvd = <<>> THEN "" ELSE Last(history.recvd))
    /\ Last(spinner'.w).glyph =
         (IF out = <<>> THEN spinnerChars[1] ELSE GlyphAfter(Last(out).glyph))

\* C23: every redraw, after a tick or after an Update, prints the progress
\* of the latest Update the renderer received, nothing before the first,
\* and the glyph that follows the glyph of the redraw before it in the
\* cycle | / - \, starting with |.
C23_RedrawShowsLatest == [][C23_Step]_vars

\* The fifth redraw or a later one, made after a tick: the cycle has come
\* round to | with the progress of the last Update.
C23_Witness ==
  /\ Len(out) >= 2
  /\ out[Len(out) - 1] = [progress |-> "2/2", glyph |-> "\\"]
  /\ Last(out) = [progress |-> "2/2", glyph |-> "|"]
  /\ history.ticks >= 1

\* C25: under fair scheduling, a caller waiting in Update is received from
\* and a caller waiting in Stop sees the renderer end, however many ticks
\* the renderer serves, unless a failed Flush makes the renderer panic,
\* which ends the process.
C25_CallsReturn ==
  /\ (caller.pc = "Update") ~> (caller.pc = "ready" \/ ~Alive)
  /\ (caller.pc = "Wait") ~> (caller.pc = "ready" \/ ~Alive)

\* Two Updates and Stop have returned, with ticks served along the way.
C25_Witness ==
  /\ history.stopReturned
  /\ caller.pc = "ready"
  /\ Len(history.recvd) = 2
  /\ history.ticks = MaxTicks

\* The Spinners whose renderer goroutine is alive.
AliveRenderers == {i \in 1..Len(spinners) : spinners[i].wg > 0}

\* The main flow is in the loop of a build or of runCmpBenches, between
\* the Start of that function's Spinner and its return.
InSpinnerLoop == pc \in {"compile", "bench"}

\* C21: at most one renderer is alive at any time; when a Spinner is
\* started the renderers of all Spinners before it are over; outside the
\* loops of build and runCmpBenches, after a return with or without an
\* error, none is alive; and the main flow never has two external
\* processes running at once, none being left running between its steps.
C21_OneRendererOneProcess ==
  /\ Cardinality(AliveRenderers) <= 1
  /\ \A i \in AliveRenderers : i = Len(spinners)
  /\ ~InSpinnerLoop => AliveRenderers = {}
  /\ procs.peak <= 1
  /\ procs.running = 0

\* Both builds and runCmpBenches had their Spinner, and runCmpBenches
\* returned an error: no renderer is left.
C21_Witness ==
  /\ pc = "done"
  /\ runErr = "error running"
  /\ Len(spinners) = 3
  /\ AliveRenderers = {}
  /\ procs.peak = 1

\* The calls made on sp are a Start, then Updates, then at most one Stop,
\* and each of them returned.
WellUsed(sp) ==
  /\ sp.fault = ""
  /\ sp.calls # <<>>
  /\ sp.calls[1].name = "Start"
  /\ \A k \in 2..Len(sp.calls) :
       /\ sp.calls[k].name \in {"Update", "Stop"}
       /\ sp.calls[k].name = "Stop" => k = Len(sp.calls)

\* The Updates of a build over n packages that returned nil.
BuildUpdates(n) == [k \in 1..(n + 1) |-> Call("Update", Fraction(k - 1, n))]

\* C26: every Spinner of build and of runCmpBenches is started first,
\* updated only while it runs and stopped exactly once, by the time the
\* function that declared it has returned, with or without an error, and
\* not before; no call on a Spinner panics or blocks for ever; a build that
\* returned nil made its Updates 0/n to n/n in order before the Stop.
C26_StopOnceAfterUpdates ==
  \A i \in 1..Len(spinners) :
    LET sp == spinners[i]
        returned == i < Len(spinners) \/ ~InSpinnerLoop
    IN  /\ WellUsed(sp)
        /\ returned <=> Last(sp.calls).name = "Stop"
        /\ returned <=> sp.ch = "closed"
        /\ (sp.owner \in SuiteNames /\ suites[sp.owner].phase = "built") =>
             sp.calls = <<Call("Start", <<>>)>> \o BuildUpdates(Len(pkgFilter))
                          \o <<Call("Stop", <<>>)>>

\* The build of the new suite failed at its second package: its Spinner
\* was updated twice and stopped.
C26_Witness ==
  /\ pc = "done"
  /\ suites["new"].phase = "failed"
  /\ Len(spinners) = 2
  /\ spinners[2].owner = "new"
  /\ spinners[2].calls =
       <<Call("Start", <<>>), Call("Update", <<"0", "/", "2">>),
         Call("Update", <<"1", "/", "2">>), Call("Stop", <<>>)>>

====
